---- MODULE Spec2Model ----
(***************************************************************************)
(* Ista Calista integration: the coordinator's fetch/merge cycle           *)
(* (custom_components/ista_calista/coordinator.py) and the sensor's        *)
(* long-term statistics import (custom_components/ista_calista/sensor.py). *)
(*                                                                         *)
(* Timestamps are positive integers, counter values are naturals, and a    *)
(* Python None is the value None below.  coordinator.data being None and   *)
(* coordinator.data["devices"] being empty are treated alike by every      *)
(* reader in the code (coordinator.py:64, sensor.py:120, sensor.py:227),   *)
(* so both are the empty device map here.                                  *)
(***************************************************************************)
EXTENDS Integers, Sequences, FiniteSets, TLC

\* ------------------------------------------------------------------ bounds
MaxT == 3           \* timestamps of the importer's histories: 1..MaxT
MaxV == 2           \* counter values: 0..MaxV
MaxLen == 3         \* readings in a history handed to the importer
MaxSum == 1         \* sums of a statistics row found in the recorder at start
MaxFetchLen == 1    \* readings per device in one API response
MaxCycles == 2      \* update cycles of the coordinator
MaxRuns == 2        \* imports started for the sensor of ImportSpec
MaxSerialLen == 3   \* characters of a serial number in IdSpec
MaxSubmits == 2     \* times the user submits the form of the config flow
MaxEntrySteps == 5  \* setups, updates and unloads of the entries of two accounts
MaxWait == 2        \* time an import is followed while it waits for the lock

\* Python's None (an absent reading value, state, sum or timestamp).
None == -1

Times == 1..MaxT
Values == 0..MaxV
OptValues == Values \cup {None}

\* ------------------------------------------------------------------ data
\* pycalista_ista.Reading as the code uses it: .date and .reading.
Reading(t, v) == [date |-> t, reading |-> v]

Readings == [date : Times, reading : OptValues]

Dates(h) == {h[i].date : i \in DOMAIN h}

\* A history as the Device invariant of the data model wants it: strictly
\* ascending dates.
IsSorted(h) == \A i \in 1..(Len(h) - 1) : h[i].date < h[i + 1].date

RECURSIVE SeqsUpTo(_, _)
SeqsUpTo(S, n) ==
    IF n = 0 THEN {<< >>}
    ELSE LET shorter == SeqsUpTo(S, n - 1)
         IN  shorter \cup {Append(h, r) : h \in {x \in shorter : Len(x) = n - 1}, r \in S}

SortedHistories(dates, n) ==
    {h \in SeqsUpTo([date : dates, reading : OptValues], n) : IsSorted(h)}

\* sorted(xs, key=lambda r: r.date): Python's sort is stable, so among equal
\* dates the earlier element of xs comes first.
RECURSIVE SortedByDate(_)
SortedByDate(xs) ==
    IF xs = << >> THEN << >>
    ELSE LET m == CHOOSE t \in Dates(xs) : \A u \in Dates(xs) : t <= u
             i == CHOOSE k \in DOMAIN xs :
                      /\ xs[k].date = m
                      /\ \A j \in 1..(k - 1) : xs[j].date # m
             rest == [j \in 1..(Len(xs) - 1) |-> IF j < i THEN xs[j] ELSE xs[j + 1]]
         IN  <<xs[i]>> \o SortedByDate(rest)

\* The last element of h dated t: what a dict comprehension keyed by date
\* keeps when h holds the key more than once.
LastAt(h, t) ==
    LET i == CHOOSE k \in DOMAIN h :
                 /\ h[k].date = t
                 /\ \A j \in (k + 1)..Len(h) : h[j].date # t
    IN  h[i]

\* ------------------------------------------------------------ coordinator
NoDevices == << >>

\* list(history_by_date.values()): the dict's values in some order; the
\* sort that follows fixes the order, the keys being distinct.
RECURSIVE DictValues(_, _)
DictValues(f, keys) ==
    IF keys = {} THEN << >>
    ELSE LET k == CHOOSE x \in keys : TRUE
         IN  <<f[k]>> \o DictValues(f, keys \ {k})

\* MergedHistory with the fetched readings appended to the list instead of
\* entered in the dict: a reading fetched twice is held twice.
MergedHistoryAppending(existing, fetched) == SortedByDate(existing \o fetched)

\* MergedHistory with the dict built in the other order: the existing
\* reading overrides the fetched one.
MergedHistoryKeepingOld(existing, fetched) ==
    LET keys == Dates(existing) \cup Dates(fetched)
        history_by_date ==
            [t \in keys |-> IF t \in Dates(existing) THEN LastAt(existing, t)
                                                   ELSE LastAt(fetched, t)]
    IN  SortedByDate(DictValues(history_by_date, keys))

\* coordinator.py:120-136: a dict keyed by date built from the existing
\* history, overwritten reading by reading with the fetched history, then
\* sorted by date.
MergedHistory(existing, fetched) ==
    LET keys == Dates(existing) \cup Dates(fetched)
        history_by_date ==
            [t \in keys |-> IF t \in Dates(fetched) THEN LastAt(fetched, t)
                                                  ELSE LastAt(existing, t)]
    IN  SortedByDate(DictValues(history_by_date, keys))

\* coordinator.py:64: not self.data or not self.data.get("devices").
IsInitialFetch(d) == DOMAIN d = {}

\* MergeDevices started from a copy of the current devices: a device the
\* API no longer returns stays.
MergeDevicesKeepingStale(current_devices, new_devices_history) ==
    [serial \in DOMAIN current_devices \cup DOMAIN new_devices_history |->
        IF serial \notin DOMAIN new_devices_history THEN current_devices[serial]
        ELSE IF serial \in DOMAIN current_devices
        THEN [new_devices_history[serial] EXCEPT
                 !.history = MergedHistory(current_devices[serial].history,
                                           new_devices_history[serial].history)]
        ELSE new_devices_history[serial]]

\* MergeDevices that keeps the device object it holds and gives it the
\* merged history: kind and location stay those of the first fetch.
MergeDevicesKeepingOldDevice(current_devices, new_devices_history) ==
    [serial \in DOMAIN new_devices_history |->
        IF serial \in DOMAIN current_devices
        THEN [current_devices[serial] EXCEPT
                 !.history = MergedHistory(current_devices[serial].history,
                                           new_devices_history[serial].history)]
        ELSE new_devices_history[serial]]

\* MergeDevices that takes an empty response for a failed one: the current
\* devices stay.
MergeDevicesIgnoringEmpty(current_devices, new_devices_history) ==
    IF DOMAIN new_devices_history = {} THEN current_devices
    ELSE [serial \in DOMAIN new_devices_history |->
             IF serial \in DOMAIN current_devices
             THEN [new_devices_history[serial] EXCEPT
                      !.history = MergedHistory(current_devices[serial].history,
                                                new_devices_history[serial].history)]
             ELSE new_devices_history[serial]]

\* MergeDevices that gives a device it did not hold an empty history.
MergeDevicesNewWithoutHistory(current_devices, new_devices_history) ==
    [serial \in DOMAIN new_devices_history |->
        IF serial \in DOMAIN current_devices
        THEN [new_devices_history[serial] EXCEPT
                 !.history = MergedHistory(current_devices[serial].history,
                                           new_devices_history[serial].history)]
        ELSE [new_devices_history[serial] EXCEPT !.history = << >>]]

\* coordinator.py:109-155: the devices of the API response, each persisting
\* device carrying the merged history, each new device as fetched.
MergeDevices(current_devices, new_devices_history) ==
    [serial \in DOMAIN new_devices_history |->
        IF serial \in DOMAIN current_devices
        THEN [new_devices_history[serial] EXCEPT
                 !.history = MergedHistory(current_devices[serial].history,
                                           new_devices_history[serial].history)]
        ELSE new_devices_history[serial]]

\* A merge done in place: the held devices get the merged histories, so
\* whoever holds the mapping published before sees them change.
SnapshotMergedInPlace(current_devices, new_devices_history) ==
    [serial \in DOMAIN current_devices |->
        IF serial \in DOMAIN new_devices_history
        THEN [current_devices[serial] EXCEPT
                 !.history = MergedHistory(current_devices[serial].history,
                                           new_devices_history[serial].history)]
        ELSE current_devices[serial]]

\* coordinator.py:109-142: the mapping published before the cycle, as the
\* cycle leaves it.  The code reads current_devices and
\* existing_device.history and assigns only to updated_devices and to
\* device_from_api.history, so the mapping is as it was.
SnapshotAfterMerge(current_devices, new_devices_history) == current_devices

\* coordinator.py:93-155: what a successful _async_update_data returns.
UpdatedData(d, new_devices_history, is_initial_fetch) ==
    IF is_initial_fetch THEN new_devices_history
    ELSE MergeDevices(d, new_devices_history)

\* ------------------------------------------------------------------ sensor
StatisticData(t, state, sum, last_reset) ==
    [start |-> t, state |-> state, sum |-> sum, last_reset |-> last_reset]

\* Checkpoint without the stored sum: every import restarts its sum at 0.
CheckpointForgettingSum(last_stats) ==
    IF last_stats # << >>
    THEN [last_stat_end_ts |-> IF last_stats[1].end = None THEN 0 ELSE last_stats[1].end,
          running_sum      |-> 0,
          last_state       |-> last_stats[1].state,
          last_reset_ts    |-> last_stats[1].last_reset]
    ELSE [last_stat_end_ts |-> 0, running_sum |-> 0,
          last_state |-> None, last_reset_ts |-> None]

\* sensor.py:285-307: the four values read from the last statistics row
\* (last_stats is a list of at most one row; "x or 0.0" maps None and 0 to 0).
Checkpoint(last_stats) ==
    IF last_stats # << >>
    THEN [last_stat_end_ts |-> IF last_stats[1].end = None THEN 0 ELSE last_stats[1].end,
          running_sum      |-> IF last_stats[1].sum = None THEN 0 ELSE last_stats[1].sum,
          last_state       |-> last_stats[1].state,
          last_reset_ts    |-> last_stats[1].last_reset]
    ELSE [last_stat_end_ts |-> 0, running_sum |-> 0,
          last_state |-> None, last_reset_ts |-> None]

\* NewReadings with >= in place of >: the reading of the last row is new again.
NewReadingsInclusive(history, last_stat_end_ts) ==
    LET newer(r) == r.date >= last_stat_end_ts
    IN  SortedByDate(SelectSeq(history, newer))

\* sensor.py:309-312.
NewReadings(history, last_stat_end_ts) ==
    LET newer(r) == r.date > last_stat_end_ts
    IN  SortedByDate(SelectSeq(history, newer))

\* PreviousState as the earlier importer had it (src/sensor.py:443): the
\* state of the last row and nothing else.
PreviousStateOfRowOnly(history, new_readings, last_state) == last_state

\* PreviousState that takes the last reading of the history for the one
\* that precedes the first new reading.
PreviousStateOfLastReading(history, new_readings, last_state) ==
    IF last_state # None THEN last_state
    ELSE history[Len(history)].reading

\* sensor.py:352-368: with no last state, the reading that precedes the
\* first new reading in the device history, when there is one.
PreviousState(history, new_readings, last_state) ==
    IF last_state # None THEN last_state
    ELSE LET first_new_reading_idx ==
                 CHOOSE k \in DOMAIN history :
                     /\ history[k].date = new_readings[1].date
                     /\ \A j \in 1..(k - 1) : history[j].date # new_readings[1].date
         IN  IF first_new_reading_idx > 1
             THEN history[first_new_reading_idx - 1].reading
             ELSE None

\* Accumulate as the earlier importer had it (src/sensor.py:455-462): a
\* reset sets the sum to the reading instead of adding the reading.
AccumulateRestarting(running_sum, increase, current_state) ==
    IF increase < 0 THEN current_state
    ELSE running_sum + increase

\* Accumulate without the reset branch: a decrease is subtracted.
AccumulateNoReset(running_sum, increase, current_state) == running_sum + increase

\* sensor.py:390-401: what one valued reading adds to the running sum.
Accumulate(running_sum, increase, current_state) ==
    IF increase < 0 THEN running_sum + current_state
    ELSE running_sum + increase

\* ImportStep without the None check: an absent value counts as 0.
ImportStepNoneAsZero(st, reading) ==
    LET current_state == IF reading.reading = None THEN 0 ELSE reading.reading
        increase == IF st.is_first_import THEN 0
                    ELSE current_state - st.last_state
        running_sum == Accumulate(st.running_sum, increase, current_state)
        last_reset_ts == IF increase < 0 THEN reading.date
                         ELSE st.last_reset_ts
    IN  [running_sum     |-> running_sum,
         last_state      |-> current_state,
         last_reset_ts   |-> last_reset_ts,
         is_first_import |-> FALSE,
         out |-> Append(st.out,
                   StatisticData(reading.date, current_state, running_sum,
                                 last_reset_ts))]

\* ImportStep without the first-import case: the first reading of a sensor
\* without statistics adds its whole value.
ImportStepNoBaseline(st, reading) ==
    IF reading.reading = None THEN st
    ELSE LET current_state == reading.reading
             increase == IF st.is_first_import THEN current_state
                         ELSE current_state - st.last_state
             running_sum == Accumulate(st.running_sum, increase, current_state)
             last_reset_ts == IF increase < 0 THEN reading.date
                              ELSE st.last_reset_ts
         IN  [running_sum     |-> running_sum,
              last_state      |-> current_state,
              last_reset_ts   |-> last_reset_ts,
              is_first_import |-> FALSE,
              out |-> Append(st.out,
                        StatisticData(reading.date, current_state, running_sum,
                                      last_reset_ts))]

\* sensor.py:373-415: one iteration of the loop over new_readings.
\* st = [running_sum, last_state, last_reset_ts, is_first_import, out].
ImportStep(st, reading) ==
    IF reading.reading = None THEN st
    ELSE LET current_state == reading.reading
             increase == IF st.is_first_import THEN 0
                         ELSE current_state - st.last_state
             running_sum == Accumulate(st.running_sum, increase, current_state)
             last_reset_ts == IF increase < 0 THEN reading.date
                              ELSE st.last_reset_ts
         IN  [running_sum     |-> running_sum,
              last_state      |-> current_state,
              last_reset_ts   |-> last_reset_ts,
              is_first_import |-> FALSE,
              out |-> Append(st.out,
                        StatisticData(reading.date, current_state, running_sum,
                            IF last_reset_ts = None \/ last_reset_ts = 0
                            THEN None ELSE last_reset_ts))]

RECURSIVE ImportLoop(_, _, _)
ImportLoop(st, new_readings, i) ==
    IF i > Len(new_readings) THEN st
    ELSE ImportLoop(ImportStep(st, new_readings[i]), new_readings, i + 1)

\* StatisticsToImport as the earlier importer started last_reset
\* (src/sensor.py:403-404): from the first reading of the whole history.
StatisticsToImportResetFromHistory(history, last_stats) ==
    LET cp == Checkpoint(last_stats)
        new_readings == NewReadings(history, cp.last_stat_end_ts)
    IN  IF new_readings = << >> THEN << >>
        ELSE LET last_state == PreviousState(history, new_readings, cp.last_state)
                 st0 == [running_sum     |-> cp.running_sum,
                         last_state      |-> last_state,
                         last_reset_ts   |-> IF cp.last_reset_ts = None
                                             THEN history[1].date
                                             ELSE cp.last_reset_ts,
                         is_first_import |-> last_state = None,
                         out |-> << >>]
             IN  ImportLoop(st0, new_readings, 1).out

\* sensor.py:285-415: statistics_to_import for a device history and the
\* last statistics row; << >> when nothing is handed to the recorder.
StatisticsToImport(history, last_stats) ==
    LET cp == Checkpoint(last_stats)
        new_readings == NewReadings(history, cp.last_stat_end_ts)
    IN  IF new_readings = << >> THEN << >>
        ELSE LET last_state == PreviousState(history, new_readings, cp.last_state)
                 st0 == [running_sum     |-> cp.running_sum,
                         last_state      |-> last_state,
                         last_reset_ts   |-> IF cp.last_reset_ts = None
                                             THEN new_readings[1].date
                                             ELSE cp.last_reset_ts,
                         is_first_import |-> last_state = None,
                         out |-> << >>]
             IN  ImportLoop(st0, new_readings, 1).out

\* ------------------------------------------------------------------- sink
\* The recorder's series of one statistic id is a set of rows, one per
\* start.  get_last_statistics (sensor.py:276-283) returns the row of the
\* greatest start, in a list, its "end" being the row's timestamp.
GetLastStatistics(series) ==
    IF series = {} THEN << >>
    ELSE LET r == CHOOSE x \in series : \A y \in series : y.start <= x.start
         IN  <<[end |-> r.start, state |-> r.state, sum |-> r.sum,
                last_reset |-> r.last_reset]>>

\* A recorder that keeps only the rows it is handed last.
AddExternalStatisticsReplacing(series, points) ==
    IF points = << >> THEN series ELSE {points[i] : i \in DOMAIN points}

\* async_add_external_statistics (sensor.py:423): rows are stored by start,
\* a later row of the same start replacing the earlier one.
AddExternalStatistics(series, points) ==
    LET starts == {points[i].start : i \in DOMAIN points}
        kept == {r \in series : r.start \notin starts}
        last(t) == points[CHOOSE k \in DOMAIN points :
                              /\ points[k].start = t
                              /\ \A j \in (k + 1)..Len(points) : points[j].start # t]
    IN  kept \cup {last(t) : t \in starts}

\* The last row a batch leaves in the series, as the next import reads it.
TailOf(points) == GetLastStatistics(AddExternalStatistics({}, points))

\* --------------------------------------------------------------- entities
DOMAIN_NAME == "ista_calista"

\* Device serial numbers, character by character.
Serials == {<<"d", "-", "1">>, <<"d", "-", "2">>}

\* The pycalista_ista class of each device of the account.
DeviceKind(serial) ==
    IF serial = <<"d", "-", "1">> THEN "ColdWaterDevice" ELSE "HeatingDevice"

\* sensor.py:53-103.  exists_kind is the class exists_fn tests for; the
\* last_reading_date sensor exists when the device has a last reading.
SENSOR_DESCRIPTIONS ==
    { [key |-> "water",             exists_kind |-> "ColdWaterDevice", generate_lts |-> TRUE],
      [key |-> "hot_water",         exists_kind |-> "HotWaterDevice",  generate_lts |-> TRUE],
      [key |-> "heating",           exists_kind |-> "HeatingDevice",   generate_lts |-> TRUE],
      [key |-> "last_reading_date", exists_kind |-> "any",             generate_lts |-> FALSE] }

ExistsFn(description, device) ==
    IF description.key = "last_reading_date" THEN device.history # << >>
    ELSE device.kind = description.exists_kind

\* sensor.py:130, 170: f"{serial}_{description.key}".
UniqueId(serial, key) == serial \o <<"_", key>>

\* str.replace(old, new) on a string held character by character.
Replace(str, old, new) == [i \in DOMAIN str |-> IF str[i] = old THEN new ELSE str[i]]

\* The statistic id with the unique id as it is.
StatisticIdKeepingHyphen(unique_id) == <<DOMAIN_NAME, ":">> \o unique_id

\* sensor.py:271: f"{DOMAIN}:{self.unique_id.replace('-', '_')}".
StatisticId(unique_id) == <<DOMAIN_NAME, ":">> \o Replace(unique_id, "-", "_")

Sensor(serial, key) == [serial |-> serial, key |-> key]

\* The sensors that generate long-term statistics, created or not.
LtsSensors ==
    {Sensor(s, d.key) : s \in Serials, d \in {x \in SENSOR_DESCRIPTIONS : x.generate_lts}}

StatisticIds == {StatisticId(UniqueId(e.serial, e.key)) : e \in LtsSensors}

\* No batch handed to the recorder has been committed.
NoneCommitted == [id \in StatisticIds |-> 0]

\* A statistic id per device: the sensors of a device share one series.
SensorStatisticIdSharedByDevice(e) == StatisticId(UniqueId(e.serial, "heating"))

SensorStatisticId(e) == StatisticId(UniqueId(e.serial, e.key))

\* ------------------------------------------------------------------ state
VARIABLES
    data,                 \* coordinator.data["devices"]: serial -> device
    last_update_success,  \* coordinator.last_update_success
    last_exception,       \* what the last cycle raised, "none" when it returned
    cycle,                \* the running _async_update_data: its position, is_initial_fetch, its
                          \* period, and how many cycles this coordinator object has started
    ncycles,              \* cycles started so far
    fetched,              \* the API response of the last successful fetch
    previous,             \* the data the last successful cycle started from
    entities,             \* the sensors created (hass.data[DOMAIN]["entities"] holds their unique ids)
    tasks,                \* per sensor, its async_import_statistics tasks, oldest first
    stats,                \* the recorder: statistic id -> series
    imported,             \* per statistic id, the batches handed to the recorder, in order
    recorded,             \* the series the recorder held when the integration was set up
    nruns,                \* ImportSpec: imports started so far
    last_run,             \* ImportSpec: the last finished import: what it read and what it produced
    lock_wait,            \* LockSpec: how long an import has been waiting for the lock that another holds
    reference,            \* AbandonSpec: the readings the API has reported, the recorder of a run in
                          \* which no import is abandoned, whether a cycle was abandoned half
                          \* done, and whether the API has revised a reading
    entry,                \* SetupSpec: the config entry: whether it is loaded, the last error of its
                          \* API client, where it occurred and what the integration raised for it
    point,                \* IdSpec: a metering point: the serial and the location of its device,
                          \* its sensor key, and the statistic id its last import used
    registry,             \* RemoveSpec: the devices the device registry holds for the entry, the LTS
                          \* sensors created for it so far, and the calls of async_clear_statistics
    flow,                 \* FlowSpec: the config flow of the user step: the day, the last input and
                          \* its login outcome, the errors, the result, and what was done so far
    failures,             \* ReadFailSpec: imports of the sensor that ended by an exception
    created,              \* EntitySpec: per sensor, how many IstaSensor objects this load of the
                          \* entry has handed to async_add_entities
    entries,              \* EntriesSpec: the config entries of two accounts and the set of
                          \* created unique ids they share in hass.data[DOMAIN]
    committed             \* AsyncSpec: per statistic id, how many of the batches handed to the
                          \* recorder it has written to the database

sysvars == <<data, last_update_success, last_exception, cycle, ncycles, fetched,
             previous, entities, tasks, stats, imported>>

runvars == <<recorded, nruns, last_run, lock_wait, reference, entry, point, registry,
            flow, failures, created, entries, committed>>

vars == <<sysvars, runvars>>

\* The configured start date (CONF_OFFSET) and the trailing window of an
\* incremental fetch (30 days), in the model's unit of time.  The window is
\* longer than the time between the start date and the second cycle, as it
\* is for an entry set up with a start date less than 30 days back.
OffsetDate == 2
TrailingWindow == 2

\* dt_util.now().date() at the cycle that is started when n cycles have
\* been started: the first cycle runs on the start date, one cycle a day.
Today(n) == OffsetDate + n

\* What get_devices_history(start, end) may return: any set of the
\* account's devices, each with readings dated within the period.
DeviceSets(start, end) ==
    LET histories == SortedHistories({t \in start..end : t >= 1}, MaxFetchLen)
    IN  UNION {{f \in [S -> [kind : {DeviceKind(s) : s \in S}, history : histories]] :
                   \A s \in S : f[s].kind = DeviceKind(s)} : S \in SUBSET Serials}

Errors == {"IstaLoginError", "IstaConnectionError", "IstaApiError", "Exception"}

\* Every failure of a cycle reported as one to retry.
RaisedRetryable(err) == "UpdateFailed"

\* coordinator.py:157-167: the exception a failed fetch is turned into.
Raised(err) ==
    IF err = "IstaLoginError" THEN "ConfigEntryAuthFailed" ELSE "UpdateFailed"

\* A failed fetch answered with an empty result instead of an exception.
DataClearedOnFailure(d) == NoDevices

\* A failed _async_update_data returns nothing: the coordinator keeps its data.
DataAfterFailure(d) == d

\* A sensor that keeps the device it saw last when the data no longer has it.
DeviceDataLastSeen(d, serial) ==
    IF serial \in DOMAIN d THEN <<d[serial]>>
    ELSE IF serial \in DOMAIN data THEN <<data[serial]>>
    ELSE << >>

\* sensor.py:225-229.
DeviceData(d, serial) == IF serial \in DOMAIN d THEN <<d[serial]>> ELSE << >>

\* sensor.py:261-269: a started import goes on to the lock only with a
\* device that has a history; the task holds the device it read.
ImportTask(d, e, after_failure) ==
    LET device == DeviceData(d, e.serial)
    IN  IF device = << >> \/ device[1].history = << >> THEN << >>
        ELSE <<[pc |-> "wait", history |-> device[1].history,
                last_stats |-> << >>, after_failure |-> after_failure]>>

\* NewEntities without the look into hass.data[DOMAIN]["entities"].
NewEntitiesUnchecked(d, current_entities) ==
    IF DOMAIN d = {} THEN {}
    ELSE LET found == {<<serial, description>> \in (DOMAIN d) \X SENSOR_DESCRIPTIONS :
                          ExistsFn(description, d[serial])}
         IN  {Sensor(p[1], p[2].key) : p \in found}

\* sensor.py:116-147: the sensors _add_entities_callback creates.
NewEntities(d, current_entities) ==
    IF DOMAIN d = {} THEN {}
    ELSE LET current_ids == {UniqueId(c.serial, c.key) : c \in current_entities}
             found == {<<serial, description>> \in (DOMAIN d) \X SENSOR_DESCRIPTIONS :
                          /\ UniqueId(serial, description.key) \notin current_ids
                          /\ ExistsFn(description, d[serial])}
         IN  {Sensor(p[1], p[2].key) : p \in found}

\* sensor.py:199-222: the import tasks one coordinator update creates: one
\* per listening LTS sensor whose device is in the data
\* (_handle_coordinator_update), one per added LTS sensor (async_added_to_hass).
TasksAfterUpdate(d, listening, added, after_failure) ==
    [e \in LtsSensors |->
        tasks[e]
        \o (IF e \in listening /\ DeviceData(d, e.serial) # << >>
            THEN ImportTask(d, e, after_failure) ELSE << >>)
        \o (IF e \in added THEN ImportTask(d, e, after_failure) ELSE << >>)]

\* Every sensor a device of the account can get, created or not.
AllSensors == {Sensor(s, d.key) : s \in Serials, d \in SENSOR_DESCRIPTIONS}

\* No IstaSensor object created yet.
NoneCreated == [e \in AllSensors |-> 0]

\* The config entries of two accounts, and the devices of each account.
Entries == {"A", "B"}

AccountSerials(x) == IF x = "A" THEN {<<"d", "-", "1">>} ELSE {<<"d", "-", "2">>}

\* No entry set up: hass.data[DOMAIN] has no "entities" key.
NoEntries ==
    [has_entities |-> FALSE,
     noted        |-> {},
     state        |-> [x \in Entries |-> "not_loaded"],
     devices      |-> [x \in Entries |-> NoDevices],
     objects      |-> [x \in Entries |-> NoneCreated],
     raised       |-> [x \in Entries |-> "none"],
     steps        |-> 0]

\* No config flow in progress.
NoFlow ==
    [today |-> 0, offset |-> None, outcome |-> "none", errors |-> [offset |-> "none", base |-> "none"],
     result |-> "none", login_attempted |-> FALSE, logins |-> 0, submits |-> 0, entries |-> 0,
     configured |-> FALSE]

\* No metering point under study.
NoPoint ==
    [serial |-> << >>, key |-> "none", location |-> "none",
     statistic_id |-> << >>, imported_at |-> "none"]

\* No device registered, no sensor created, the recorder not asked to clear.
NoRegistry == [devices |-> {}, sensors |-> {}, cleared |-> << >>]

\* __init__.py:104-113: the entry once async_setup_entry has returned True.
LoadedEntry == [state |-> "loaded", cause |-> "none", at |-> "none", raised |-> "none"]

\* Nothing reported, nothing recorded, nothing abandoned, nothing revised.
NoReference ==
    [upstream |-> [s \in Serials |-> << >>],
     sink |-> [id \in StatisticIds |-> {}],
     abandoned |-> FALSE,
     revised |-> FALSE]

Init ==
    /\ data = NoDevices
    /\ last_update_success = TRUE
    /\ last_exception = "none"
    /\ cycle = [pc |-> "idle", is_initial_fetch |-> TRUE,
                fetch_start_date |-> OffsetDate, fetch_end_date |-> OffsetDate,
                run |-> 0]
    /\ ncycles = 0
    /\ fetched = NoDevices
    /\ previous = NoDevices
    /\ entities = {}
    /\ tasks = [e \in LtsSensors |-> << >>]
    /\ stats = [id \in StatisticIds |-> {}]
    /\ imported = [id \in StatisticIds |-> << >>]
    /\ recorded = {}
    /\ nruns = 0
    /\ last_run = << >>
    /\ lock_wait = 0
    /\ reference = NoReference
    /\ entry = LoadedEntry
    /\ point = NoPoint
    /\ registry = NoRegistry
    /\ flow = NoFlow
    /\ failures = 0
    /\ created = NoneCreated
    /\ entries = NoEntries
    /\ committed = NoneCommitted

\* IncrementalStart that asks for the whole period at every cycle.
IncrementalStartWide(today) == OffsetDate

\* coordinator.py:76: dt_util.now().date() - timedelta(days=30).
IncrementalStart(today) == today - TrailingWindow

\* coordinator.py:61-85: a cycle starts, decides whether it is the initial
\* fetch and asks the API for the period.
BeginUpdate ==
    /\ cycle.pc = "idle"
    /\ ncycles < MaxCycles
    /\ LET today == Today(ncycles)
           is_initial_fetch == IsInitialFetch(data)
       IN  cycle' = [pc |-> "fetching",
                     is_initial_fetch |-> is_initial_fetch,
                     fetch_start_date |-> IF is_initial_fetch THEN OffsetDate
                                          ELSE IncrementalStart(today),
                     fetch_end_date |-> today,
                     run |-> cycle.run + 1]
    /\ ncycles' = ncycles + 1
    /\ UNCHANGED <<data, last_update_success, last_exception, fetched, previous,
                   entities, tasks, stats, imported>>

\* coordinator.py:83-155 and the listeners the coordinator then calls.
FetchSucceeded(new_devices_history) ==
    /\ cycle.pc = "fetching"
    /\ LET d == UpdatedData(data, new_devices_history, cycle.is_initial_fetch)
           added == NewEntities(d, entities)
       IN  /\ data' = d
           /\ entities' = entities \cup added
           /\ tasks' = TasksAfterUpdate(d, entities \cap LtsSensors,
                                        added \cap LtsSensors, FALSE)
    /\ fetched' = new_devices_history
    /\ previous' = SnapshotAfterMerge(data, new_devices_history)
    /\ last_update_success' = TRUE
    /\ last_exception' = "none"
    /\ cycle' = [cycle EXCEPT !.pc = "idle"]
    /\ UNCHANGED <<ncycles, stats, imported>>

\* coordinator.py:157-167: the fetch raises.  The listeners are called when
\* the update before this one had succeeded.
FetchFailed(err) ==
    /\ cycle.pc = "fetching"
    /\ data' = DataAfterFailure(data)
    /\ last_update_success' = FALSE
    /\ last_exception' = Raised(err)
    /\ tasks' = IF last_update_success
                THEN TasksAfterUpdate(data', entities \cap LtsSensors, {}, TRUE)
                ELSE tasks
    /\ cycle' = [cycle EXCEPT !.pc = "idle"]
    /\ UNCHANGED <<ncycles, fetched, previous, entities, stats, imported>>

\* ImportRead without the lock: any task of the sensor that has not read
\* yet reads the last statistics row, whether or not another holds the section.
ImportReadUnlocked(e) ==
    /\ \E i \in DOMAIN tasks[e] :
           /\ tasks[e][i].pc = "wait"
           /\ tasks' = [tasks EXCEPT
                            ![e][i].pc = "run",
                            ![e][i].last_stats = GetLastStatistics(stats[SensorStatisticId(e)])]
    /\ UNCHANGED <<data, last_update_success, last_exception, cycle, ncycles,
                   fetched, previous, entities, stats, imported>>

\* sensor.py:274-283: the oldest task of a sensor takes the lock and reads
\* the last statistics row.
ImportRead(e) ==
    /\ tasks[e] # << >>
    /\ tasks[e][1].pc = "wait"
    /\ tasks' = [tasks EXCEPT ![e][1].pc = "run",
                              ![e][1].last_stats = GetLastStatistics(stats[SensorStatisticId(e)])]
    /\ UNCHANGED <<data, last_update_success, last_exception, cycle, ncycles,
                   fetched, previous, entities, stats, imported>>

\* sensor.py:285-424: the task holding the lock computes the new
\* statistics, hands them to the recorder when there are any, and releases.
ImportFinish(e) ==
    /\ tasks[e] # << >>
    /\ tasks[e][1].pc = "run"
    /\ LET id == SensorStatisticId(e)
           statistics_to_import ==
               StatisticsToImport(tasks[e][1].history, tasks[e][1].last_stats)
       IN  IF statistics_to_import # << >>
           THEN /\ stats' = [stats EXCEPT
                                ![id] = AddExternalStatistics(@, statistics_to_import)]
                /\ imported' = [imported EXCEPT ![id] = Append(@, statistics_to_import)]
           ELSE UNCHANGED <<stats, imported>>
    /\ tasks' = [tasks EXCEPT ![e] = Tail(@)]
    /\ UNCHANGED <<data, last_update_success, last_exception, cycle, ncycles,
                   fetched, previous, entities>>

\* __init__.py:124-134 then 104-113: the entry is unloaded and set up again
\* (a reload or a restart): the coordinator and the created-sensor
\* bookkeeping start afresh, the recorder keeps its statistics.
ReloadEntry ==
    /\ cycle.pc = "idle"
    /\ ncycles < MaxCycles
    /\ DOMAIN data # {}
    /\ \A e \in LtsSensors : tasks[e] = << >>
    /\ data' = NoDevices
    /\ entities' = {}
    /\ last_update_success' = TRUE
    /\ last_exception' = "none"
    /\ fetched' = NoDevices
    /\ previous' = NoDevices
    /\ cycle' = [cycle EXCEPT !.run = 0]
    /\ UNCHANGED <<ncycles, tasks, stats, imported>>

Next ==
    \/ BeginUpdate /\ UNCHANGED runvars
    \/ /\ cycle.pc = "fetching"
       /\ \E new_devices_history \in DeviceSets(cycle.fetch_start_date, cycle.fetch_end_date) :
              FetchSucceeded(new_devices_history)
       /\ UNCHANGED runvars
    \/ (\E err \in Errors : FetchFailed(err)) /\ UNCHANGED runvars
    \/ (\E e \in LtsSensors : ImportRead(e)) /\ UNCHANGED runvars
    \/ (\E e \in LtsSensors : ImportFinish(e)) /\ UNCHANGED runvars
    \/ ReloadEntry /\ UNCHANGED runvars

Spec == Init /\ [][Next]_vars

\* --------------------------------------------------------- the importer
\* ImportSpec: the statistics import of one sensor, over every history that
\* grows by later readings and every last row the recorder may hold from
\* an earlier installation.  The rows this integration writes carry a
\* state, a sum and a last_reset (sensor.py:403-414).
TheSerial == <<"d", "-", "1">>
TheSensor == Sensor(TheSerial, "water")
TheId == SensorStatisticId(TheSensor)

RecordedRows ==
    {r \in [start : Times, state : Values, sum : 0..MaxSum, last_reset : Times] :
        r.last_reset <= r.start}

ImportInit ==
    /\ data = [s \in {TheSerial} |-> [kind |-> DeviceKind(s), history |-> << >>]]
    /\ last_update_success = TRUE
    /\ last_exception = "none"
    /\ cycle = [pc |-> "idle", is_initial_fetch |-> TRUE,
                fetch_start_date |-> OffsetDate, fetch_end_date |-> OffsetDate,
                run |-> 0]
    /\ ncycles = 0
    /\ fetched = NoDevices
    /\ previous = NoDevices
    /\ entities = {TheSensor}
    /\ tasks = [e \in LtsSensors |-> << >>]
    /\ recorded \in {{}} \cup {{r} : r \in RecordedRows}
    /\ stats = [id \in StatisticIds |-> IF id = TheId THEN recorded ELSE {}]
    /\ imported = [id \in StatisticIds |-> << >>]
    /\ nruns = 0
    /\ last_run = << >>
    /\ lock_wait = 0
    /\ reference = NoReference
    /\ entry = LoadedEntry
    /\ point = NoPoint
    /\ registry = NoRegistry
    /\ flow = NoFlow
    /\ failures = 0
    /\ created = NoneCreated
    /\ entries = NoEntries
    /\ committed = NoneCommitted

\* coordinator.py:114-142: a fetch brings one reading later than those held
\* and the merge adds it to the device's history.
ReadingReported(r) ==
    /\ Len(data[TheSerial].history) < MaxLen
    /\ \A t \in Dates(data[TheSerial].history) : t < r.date
    /\ data' = MergeDevices(data,
                    [s \in {TheSerial} |-> [kind |-> DeviceKind(s), history |-> <<r>>]])
    /\ UNCHANGED <<last_update_success, last_exception, cycle, ncycles, fetched,
                   previous, entities, tasks, stats, imported, runvars>>

\* sensor.py:210, 222, 261-269: an import of the sensor is started.
StartImport ==
    /\ nruns < MaxRuns
    /\ nruns' = nruns + 1
    /\ tasks' = [tasks EXCEPT ![TheSensor] = @ \o ImportTask(data, TheSensor, FALSE)]
    /\ UNCHANGED <<data, last_update_success, last_exception, cycle, ncycles, fetched,
                   previous, entities, stats, imported, recorded, last_run, lock_wait, reference, entry, point, registry, flow, failures, created, entries, committed>>

\* The import that finishes is noted with what it read and produced.
FinishRun ==
    /\ ImportFinish(TheSensor)
    /\ last_run' = <<[history |-> tasks[TheSensor][1].history,
                      last_stats |-> tasks[TheSensor][1].last_stats,
                      points |-> StatisticsToImport(tasks[TheSensor][1].history,
                                                    tasks[TheSensor][1].last_stats)]>>
    /\ UNCHANGED <<recorded, nruns, lock_wait, reference, entry, point, registry, flow, failures, created, entries, committed>>

ImportNext ==
    \/ \E r \in Readings : ReadingReported(r)
    \/ StartImport
    \/ ImportRead(TheSensor) /\ UNCHANGED runvars
    \/ FinishRun

ImportSpec == ImportInit /\ [][ImportNext]_vars

\* ------------------------------------------------------------ the lock
\* LockSpec: the imports of one sensor with the time an import spends
\* waiting for self._stats_import_lock while another import holds it (the
\* holder is in the recorder's executor job, sensor.py:276-283, for as long
\* as the database takes).
LockInit == ImportInit /\ recorded = {}

\* An import of the sensor holds the lock and another waits for it.
LockAwaited ==
    /\ Len(tasks[TheSensor]) >= 2
    /\ tasks[TheSensor][1].pc = "run"

\* sensor.py:274: time passes for the import waiting at "async with".
Tick ==
    /\ LockAwaited
    /\ lock_wait < MaxWait
    /\ lock_wait' = lock_wait + 1
    /\ UNCHANGED <<sysvars, recorded, nruns, last_run, reference, entry, point, registry, flow, failures, created, entries, committed>>

\* sensor.py:424: the holder leaves the "async with" block and the lock
\* goes to the import that waited.
LockRelease ==
    /\ ImportFinish(TheSensor)
    /\ lock_wait' = 0
    /\ UNCHANGED <<recorded, nruns, last_run, reference, entry, point, registry, flow, failures, created, entries, committed>>

LockNext ==
    \/ \E r \in Readings : ReadingReported(r)
    \/ StartImport
    \/ ImportRead(TheSensor) /\ UNCHANGED runvars
    \/ LockRelease
    \/ Tick

LockSpec == LockInit /\ [][LockNext]_vars

\* ------------------------------------------------------- raw responses
\* RawSpec: the cycles of an account with one device whose API responses
\* hold the readings in any order and with any repetition of a date.
RawHistories(dates, n) == SeqsUpTo([date : dates, reading : OptValues], n)

\* Device.location as the API reports it; it may differ from one response
\* to the next.
Locations == {"kitchen", "bath"}

RawDeviceSets(start, end) ==
    LET histories == RawHistories({t \in start..end : t >= 1}, MaxFetchLen + 1)
    IN  UNION {[S -> [kind : {DeviceKind(TheSerial)}, location : Locations,
                      history : histories]] :
                   S \in SUBSET {TheSerial}}

RawNext ==
    \/ BeginUpdate /\ UNCHANGED runvars
    \/ /\ cycle.pc = "fetching"
       /\ \E new_devices_history \in RawDeviceSets(cycle.fetch_start_date, cycle.fetch_end_date) :
              FetchSucceeded(new_devices_history)
       /\ UNCHANGED runvars
    \/ (\E err \in Errors : FetchFailed(err)) /\ UNCHANGED runvars
    \/ (\E e \in LtsSensors : ImportRead(e)) /\ UNCHANGED runvars
    \/ (\E e \in LtsSensors : ImportFinish(e)) /\ UNCHANGED runvars
    \/ ReloadEntry /\ UNCHANGED runvars

RawSpec == Init /\ [][RawNext]_vars

\* ------------------------------------------------------ abandoned cycles
\* AbandonSpec: the cycles of an account whose API returns, at each fetch,
\* a reading for every date it returned one for before, its value possibly
\* revised, and possibly one reading of the day; the recorder may hold a
\* row from an earlier installation; Home Assistant may stop while imports
\* are pending, which cancels them, and start again.  reference.sink is the
\* recorder of the same run with every import carried out when it is
\* started.
\* The sensors the account's devices get (sensor.py:53-103, exists_fn).
TheSensors ==
    {e \in LtsSensors : \E d \in SENSOR_DESCRIPTIONS :
                            d.key = e.key /\ d.exists_kind = DeviceKind(e.serial)}

\* The histories of the dates of h, each reading with a value.
Restated(h) ==
    {g \in [DOMAIN h -> Readings] :
        \A i \in DOMAIN h : g[i].date = h[i].date /\ g[i].reading # None}

\* What the API may return for a device on a day.
ResponseHistories(s, today) ==
    LET later == {<< >>} \cup {<<Reading(today, v)>> : v \in Values}
        reported == /\ reference.upstream[s] # << >>
                    /\ reference.upstream[s][Len(reference.upstream[s])].date = today
    IN  {g \o h : g \in Restated(reference.upstream[s]),
                  h \in IF reported THEN {<< >>} ELSE later}

Responses(today) ==
    LET histories == {hs \in [Serials -> UNION {ResponseHistories(s, today) : s \in Serials}] :
                         \A s \in Serials : hs[s] \in ResponseHistories(s, today)}
    IN  {[s \in Serials |-> [kind |-> DeviceKind(s), history |-> hs[s]]] : hs \in histories}

\* The readings of h that the response keeps as they were.
Unrevised(h, response) == SubSeq(response, 1, Len(h)) = h

\* sensor.py:274-424 for the tasks from the i-th on, one after the other.
RECURSIVE RunImports(_, _, _)
RunImports(series, ts, i) ==
    IF i > Len(ts) THEN series
    ELSE RunImports(
             AddExternalStatistics(series,
                 StatisticsToImport(ts[i].history, GetLastStatistics(series))),
             ts, i + 1)

\* The reference recorder once the imports started in this step have run.
ReferenceSink(new_tasks) ==
    [id \in StatisticIds |->
        LET e == CHOOSE x \in LtsSensors : SensorStatisticId(x) = id
        IN  RunImports(reference.sink[id], new_tasks[e], Len(tasks[e]) + 1)]

\* The last row of an earlier installation, before the configured start.
EarlierRows == {x \in RecordedRows : x.start < OffsetDate /\ x.sum = MaxSum}

AbandonInit ==
    /\ data = NoDevices
    /\ last_update_success = TRUE
    /\ last_exception = "none"
    /\ cycle = [pc |-> "idle", is_initial_fetch |-> TRUE,
                fetch_start_date |-> OffsetDate, fetch_end_date |-> OffsetDate,
                run |-> 0]
    /\ ncycles = 0
    /\ fetched = NoDevices
    /\ previous = NoDevices
    /\ entities = {}
    /\ tasks = [e \in LtsSensors |-> << >>]
    /\ \E earlier \in {{}} \cup {{r} : r \in EarlierRows} :
           stats = [id \in StatisticIds |->
                       IF id \in {SensorStatisticId(e) : e \in TheSensors}
                       THEN earlier ELSE {}]
    /\ imported = [id \in StatisticIds |-> << >>]
    /\ recorded = {}
    /\ nruns = 0
    /\ last_run = << >>
    /\ lock_wait = 0
    /\ reference = [upstream |-> [s \in Serials |-> << >>],
                    sink |-> stats,
                    abandoned |-> FALSE,
                    revised |-> FALSE]
    /\ entry = LoadedEntry
    /\ point = NoPoint
    /\ registry = NoRegistry
    /\ flow = NoFlow
    /\ failures = 0
    /\ created = NoneCreated
    /\ entries = NoEntries
    /\ committed = NoneCommitted

AbandonFetchSucceeded(new_devices_history) ==
    /\ FetchSucceeded(new_devices_history)
    /\ reference' = [reference EXCEPT
                        !.upstream = [s \in Serials |-> new_devices_history[s].history],
                        !.sink = ReferenceSink(tasks'),
                        !.revised = @ \/ \E s \in Serials :
                                             ~Unrevised(reference.upstream[s],
                                                        new_devices_history[s].history)]
    /\ UNCHANGED <<recorded, nruns, last_run, lock_wait, entry, point, registry, flow, failures, created, entries, committed>>

AbandonFetchFailed(err) ==
    /\ FetchFailed(err)
    /\ reference' = [reference EXCEPT !.sink = ReferenceSink(tasks')]
    /\ UNCHANGED <<recorded, nruns, last_run, lock_wait, entry, point, registry, flow, failures, created, entries, committed>>

\* The sensors whose import is pending, and those whose imports are done
\* and have handed points to the recorder.
Pending == {e \in LtsSensors : tasks[e] # << >>}
Committed == {e \in LtsSensors : tasks[e] = << >> /\ imported[SensorStatisticId(e)] # << >>}

\* Home Assistant stops with imports pending and starts again: the pending
\* import tasks are cancelled before their append (they wait at the lock or
\* at the executor job, sensor.py:274-283), coordinator and sensors are
\* created anew, the recorder keeps what was appended.
Abandon ==
    /\ cycle.pc = "idle"
    /\ ncycles < MaxCycles
    /\ Pending # {}
    /\ tasks' = [e \in LtsSensors |-> << >>]
    /\ data' = NoDevices
    /\ entities' = {}
    /\ last_update_success' = TRUE
    /\ last_exception' = "none"
    /\ fetched' = NoDevices
    /\ previous' = NoDevices
    /\ cycle' = [cycle EXCEPT !.run = 0]
    /\ reference' = [reference EXCEPT !.abandoned = @ \/ Committed # {}]
    /\ UNCHANGED <<ncycles, stats, imported, recorded, nruns, last_run, lock_wait, entry, point, registry, flow, failures, created, entries, committed>>

AbandonNext ==
    \/ BeginUpdate /\ UNCHANGED runvars
    \/ /\ cycle.pc = "fetching"
       /\ \E new_devices_history \in Responses(cycle.fetch_end_date) :
              AbandonFetchSucceeded(new_devices_history)
    \/ \E err \in Errors : AbandonFetchFailed(err)
    \/ (\E e \in LtsSensors : ImportRead(e)) /\ UNCHANGED runvars
    \/ (\E e \in LtsSensors : ImportFinish(e)) /\ UNCHANGED runvars
    \/ Abandon

AbandonSpec == AbandonInit /\ [][AbandonNext]_vars

\* ------------------------------------------------------------- the setup
\* SetupSpec: the config entry from before its setup.  async_setup_entry
\* logs in; when the login raises, the setup raises and Home Assistant
\* sets the entry up again later; once loaded, the cycles run.
NotLoadedEntry == [state |-> "not_loaded", cause |-> "none", at |-> "none", raised |-> "none"]

\* __init__.py:88-102: the exception a failed login is turned into.
SetupRaised(err) ==
    IF err = "IstaLoginError" THEN "ConfigEntryAuthFailed" ELSE "ConfigEntryNotReady"

SetupInit ==
    /\ data = NoDevices
    /\ last_update_success = TRUE
    /\ last_exception = "none"
    /\ cycle = [pc |-> "idle", is_initial_fetch |-> TRUE,
                fetch_start_date |-> OffsetDate, fetch_end_date |-> OffsetDate,
                run |-> 0]
    /\ ncycles = 0
    /\ fetched = NoDevices
    /\ previous = NoDevices
    /\ entities = {}
    /\ tasks = [e \in LtsSensors |-> << >>]
    /\ stats = [id \in StatisticIds |-> {}]
    /\ imported = [id \in StatisticIds |-> << >>]
    /\ recorded = {}
    /\ nruns = 0
    /\ last_run = << >>
    /\ lock_wait = 0
    /\ reference = NoReference
    /\ entry = NotLoadedEntry
    /\ point = NoPoint
    /\ registry = NoRegistry
    /\ flow = NoFlow
    /\ failures = 0
    /\ created = NoneCreated
    /\ entries = NoEntries
    /\ committed = NoneCommitted

\* __init__.py:81-87, 104-113: the login succeeds and the entry is loaded.
SetupEntry ==
    /\ entry.state # "loaded"
    /\ entry' = LoadedEntry
    /\ UNCHANGED <<sysvars, recorded, nruns, last_run, lock_wait, reference, point, registry, flow, failures, created, entries, committed>>

\* __init__.py:81-102: the login raises err and the setup raises.
SetupFailed(err) ==
    /\ entry.state # "loaded"
    /\ entry' = [state |-> "not_loaded", cause |-> err, at |-> "setup",
                 raised |-> SetupRaised(err)]
    /\ UNCHANGED <<sysvars, recorded, nruns, last_run, lock_wait, reference, point, registry, flow, failures, created, entries, committed>>

\* coordinator.py:157-167 in a cycle of the loaded entry.
CycleFailed(err) ==
    /\ entry.state = "loaded"
    /\ FetchFailed(err)
    /\ entry' = [entry EXCEPT !.cause = err, !.at = "cycle", !.raised = last_exception']
    /\ UNCHANGED <<recorded, nruns, last_run, lock_wait, reference, point, registry, flow, failures, created, entries, committed>>

SetupNext ==
    \/ SetupEntry
    \/ \E err \in Errors : SetupFailed(err)
    \/ entry.state = "loaded" /\ BeginUpdate /\ UNCHANGED runvars
    \/ /\ entry.state = "loaded"
       /\ cycle.pc = "fetching"
       /\ \E new_devices_history \in DeviceSets(cycle.fetch_start_date, cycle.fetch_end_date) :
              FetchSucceeded(new_devices_history)
       /\ UNCHANGED runvars
    \/ \E err \in Errors : CycleFailed(err)
    \/ (\E e \in LtsSensors : ImportRead(e)) /\ UNCHANGED runvars
    \/ (\E e \in LtsSensors : ImportFinish(e)) /\ UNCHANGED runvars

SetupSpec == SetupInit /\ [][SetupNext]_vars

\* -------------------------------------------------------- statistic ids
\* IdSpec: one metering point, for every serial number of up to
\* MaxSerialLen characters; its device's location changes and its import
\* computes the statistic id.
Alphanumeric == {"d", "1"}
Separators == {"-", "."}

SerialNumbers == SeqsUpTo(Alphanumeric \cup Separators, MaxSerialLen) \ {<< >>}

LtsKeys == {d.key : d \in {x \in SENSOR_DESCRIPTIONS : x.generate_lts}}

\* The state in which nothing has been fetched, created or imported.
IdleSystem ==
    /\ data = NoDevices
    /\ last_update_success = TRUE
    /\ last_exception = "none"
    /\ cycle = [pc |-> "idle", is_initial_fetch |-> TRUE,
                fetch_start_date |-> OffsetDate, fetch_end_date |-> OffsetDate,
                run |-> 0]
    /\ ncycles = 0
    /\ fetched = NoDevices
    /\ previous = NoDevices
    /\ entities = {}
    /\ tasks = [e \in LtsSensors |-> << >>]
    /\ stats = [id \in StatisticIds |-> {}]
    /\ imported = [id \in StatisticIds |-> << >>]
    /\ recorded = {}
    /\ nruns = 0
    /\ last_run = << >>
    /\ lock_wait = 0
    /\ reference = NoReference

IdInit ==
    /\ IdleSystem
    /\ entry = LoadedEntry
    /\ registry = NoRegistry
    /\ flow = NoFlow
    /\ failures = 0
    /\ created = NoneCreated
    /\ entries = NoEntries
    /\ committed = NoneCommitted
    /\ point \in [serial : SerialNumbers, key : LtsKeys, location : Locations,
                  statistic_id : {<< >>}, imported_at : {"none"}]

\* sensor.py:170, 271: an import computes the statistic id from the unique
\* id the sensor was given at its creation.
ImportPoint ==
    /\ point' = [point EXCEPT
                    !.statistic_id = StatisticId(UniqueId(point.serial, point.key)),
                    !.imported_at = point.location]
    /\ UNCHANGED <<sysvars, recorded, nruns, last_run, lock_wait, reference, entry, registry, flow, failures, created, entries, committed>>

\* coordinator.py:137-142: the device is taken from the response, with the
\* location the API now reports.
LocationChanged(location) ==
    /\ location # point.location
    /\ point' = [point EXCEPT !.location = location]
    /\ UNCHANGED <<sysvars, recorded, nruns, last_run, lock_wait, reference, entry, registry, flow, failures, created, entries, committed>>

IdNext ==
    \/ ImportPoint
    \/ \E location \in Locations : LocationChanged(location)

IdSpec == IdInit /\ [][IdNext]_vars

\* ------------------------------------------------------------ the removal
\* RemoveSpec: the cycles of a loaded entry with the device registry.  Each
\* created sensor registers the device of its serial (sensor.py:173-174);
\* the registry may hold, for the entry, devices this integration did not
\* register.  Removing the entry ends the run.
\* sensor.py:179-184: model_map.get(type(device), "Generic Meter").
ModelOf(kind) ==
    CASE kind = "ColdWaterDevice" -> "Cold Water Meter"
      [] kind = "HotWaterDevice"  -> "Hot Water Meter"
      [] kind = "HeatingDevice"   -> "Heating Meter"
      [] OTHER                    -> "Generic Meter"

\* A map that takes every model it does not know for a cold water meter.
ModelToKeyDefaulting(model) ==
    CASE model = "Hot Water Meter" -> "hot_water"
      [] model = "Heating Meter"   -> "heating"
      [] OTHER                     -> "water"

\* __init__.py:38-42, 158: MODEL_TO_KEY_MAP.get(device.model).
MODEL_TO_KEY_MAP(model) ==
    CASE model = "Cold Water Meter" -> "water"
      [] model = "Hot Water Meter"  -> "hot_water"
      [] model = "Heating Meter"    -> "heating"
      [] OTHER                      -> "none"

\* sensor.py:191-197: the device a sensor registers; identifier is the
\* serial of the (DOMAIN, serial) identifier, << >> when the device has none.
DeviceEntry(serial, device) == [identifier |-> serial, model |-> ModelOf(device.kind)]

\* Devices of the entry that no sensor of this integration registered: one of
\* a model the map does not know, one without an identifier of the domain.
ForeignDevices ==
    {[identifier |-> <<"u", "-", "1">>, model |-> "Unknown Model"],
     [identifier |-> << >>, model |-> "Cold Water Meter"]}

\* __init__.py:156-187: the ids async_remove_entry collects.
StatisticIdsToClear(devices) ==
    {<<DOMAIN_NAME, ":">> \o Replace(d.identifier, "-", "_")
                          \o <<"_", MODEL_TO_KEY_MAP(d.model)>> :
        d \in {x \in devices : MODEL_TO_KEY_MAP(x.model) # "none" /\ x.identifier # << >>}}

\* The recorder after async_clear_statistics(ids).
ClearStatistics(series, ids) == [id \in DOMAIN series |-> IF id \in ids THEN {} ELSE series[id]]

RemoveInit ==
    /\ IdleSystem
    /\ entry = LoadedEntry
    /\ point = NoPoint
    /\ registry \in [devices : {{}, ForeignDevices}, sensors : {{}}, cleared : {<< >>}]
    /\ flow = NoFlow
    /\ failures = 0
    /\ created = NoneCreated
    /\ entries = NoEntries
    /\ committed = NoneCommitted

RemoveFetchSucceeded(new_devices_history) ==
    /\ FetchSucceeded(new_devices_history)
    /\ registry' = [registry EXCEPT
                       !.devices = @ \cup {DeviceEntry(e.serial, data'[e.serial]) :
                                              e \in entities' \ entities},
                       !.sensors = @ \cup ((entities' \ entities) \cap LtsSensors)]
    /\ UNCHANGED <<recorded, nruns, last_run, lock_wait, reference, entry, point, flow, failures, created, entries, committed>>

\* __init__.py:137-209, after the unload of the entry (__init__.py:124-134).
RemoveEntry ==
    /\ entry.state = "loaded"
    /\ cycle.pc = "idle"
    /\ LET statistic_ids_to_clear == StatisticIdsToClear(registry.devices)
       IN  IF registry.devices = {} \/ statistic_ids_to_clear = {}
           THEN UNCHANGED <<registry, stats>>
           ELSE /\ registry' = [registry EXCEPT !.cleared = Append(@, statistic_ids_to_clear)]
                /\ stats' = ClearStatistics(stats, statistic_ids_to_clear)
    /\ entry' = [entry EXCEPT !.state = "removed"]
    /\ entities' = {}
    /\ UNCHANGED <<data, last_update_success, last_exception, cycle, ncycles, fetched,
                   previous, tasks, imported, recorded, nruns, last_run, lock_wait,
                   reference, point, flow, failures, created, entries, committed>>

RemoveNext ==
    \/ entry.state = "loaded" /\ BeginUpdate /\ UNCHANGED runvars
    \/ /\ entry.state = "loaded"
       /\ cycle.pc = "fetching"
       /\ \E new_devices_history \in DeviceSets(cycle.fetch_start_date, cycle.fetch_end_date) :
              RemoveFetchSucceeded(new_devices_history)
    \/ entry.state = "loaded" /\ (\E err \in Errors : FetchFailed(err)) /\ UNCHANGED runvars
    \/ (\E e \in LtsSensors : ImportRead(e)) /\ UNCHANGED runvars
    \/ (\E e \in LtsSensors : ImportFinish(e)) /\ UNCHANGED runvars
    \/ entry.state = "loaded" /\ ReloadEntry /\ UNCHANGED runvars
    \/ RemoveEntry

RemoveSpec == RemoveInit /\ [][RemoveNext]_vars

\* -------------------------------------------------------- the config flow
\* FlowSpec: the user step of the config flow.  The user submits an offset
\* date (None: a text that is no date) and credentials for which the login
\* has an outcome; the account may be configured already.
\* config_flow.py:52-54: relativedelta(months=1), in days of the model.
Month == 1

\* config_flow.py:52-54.
GetMinOffsetDate(today) == today - Month

\* config_flow.py:76-89: the error of the offset date, "none" without one.
OffsetError(offset, today) ==
    IF offset = None THEN "invalid_date_format"
    ELSE IF offset > GetMinOffsetDate(today) THEN "offset_too_recent"
    ELSE "none"

\* Every failed login reported as a failed connection.
LoginErrorAllConnect(outcome) ==
    IF outcome = "ok" THEN "none" ELSE "cannot_connect"

\* config_flow.py:97-110: the error of the login, "none" when it succeeds.
LoginError(outcome) ==
    CASE outcome = "ok" -> "none"
      [] outcome = "IstaLoginError" -> "invalid_auth"
      [] outcome \in {"IstaConnectionError", "IstaApiError"} -> "cannot_connect"
      [] OTHER -> "unknown"

\* config_flow.py:67-114: the errors, and whether the login was attempted.
ValidateUserInput(offset, outcome, today) ==
    LET offset_error == OffsetError(offset, today)
    IN  IF offset_error # "none"
        THEN [errors |-> [offset |-> offset_error, base |-> "none"], login |-> FALSE]
        ELSE [errors |-> [offset |-> "none", base |-> LoginError(outcome)], login |-> TRUE]

NoErrors == [offset |-> "none", base |-> "none"]

FlowInit ==
    /\ IdleSystem
    /\ entry = NotLoadedEntry
    /\ point = NoPoint
    /\ registry = NoRegistry
    /\ flow \in [today : Times, offset : {None}, outcome : {"none"}, errors : {NoErrors},
                 result : {"form"}, login_attempted : {FALSE}, logins : {0}, submits : {0},
                 entries : {0}, configured : BOOLEAN]
    /\ failures = 0
    /\ created = NoneCreated
    /\ entries = NoEntries
    /\ committed = NoneCommitted

\* config_flow.py:116-164 with user_input given.
StepUser(offset, outcome) ==
    /\ flow.result = "form"
    /\ flow.submits < MaxSubmits
    /\ LET validated == ValidateUserInput(offset, outcome, flow.today)
           result == IF validated.errors # NoErrors THEN "form"
                     ELSE IF flow.configured THEN "abort"
                     ELSE "create_entry"
       IN  flow' = [flow EXCEPT
                       !.offset = offset,
                       !.outcome = outcome,
                       !.errors = validated.errors,
                       !.login_attempted = validated.login,
                       !.logins = @ + (IF validated.login THEN 1 ELSE 0),
                       !.submits = @ + 1,
                       !.result = result,
                       !.entries = @ + (IF result = "create_entry" THEN 1 ELSE 0)]
    /\ UNCHANGED <<sysvars, recorded, nruns, last_run, lock_wait, reference, entry, point,
                   registry, failures, created, entries, committed>>

FlowNext == \E offset \in (0..MaxT) \cup {None}, outcome \in {"ok"} \cup Errors :
                StepUser(offset, outcome)

FlowSpec == FlowInit /\ [][FlowNext]_vars

\* ------------------------------------------------------ returning devices
\* ReturnSpec: the cycles of Spec with a recorder that may hold, for the
\* sensors of the account, the last row of an earlier time in which their
\* devices were held (before a removal from the account, a reload or a
\* reinstallation).
ReturnInit ==
    /\ data = NoDevices
    /\ last_update_success = TRUE
    /\ last_exception = "none"
    /\ cycle = [pc |-> "idle", is_initial_fetch |-> TRUE,
                fetch_start_date |-> OffsetDate, fetch_end_date |-> OffsetDate,
                run |-> 0]
    /\ ncycles = 0
    /\ fetched = NoDevices
    /\ previous = NoDevices
    /\ entities = {}
    /\ tasks = [e \in LtsSensors |-> << >>]
    /\ \E earlier \in {{}} \cup {{r} : r \in EarlierRows} :
           stats = [id \in StatisticIds |->
                       IF id \in {SensorStatisticId(e) : e \in TheSensors}
                       THEN earlier ELSE {}]
    /\ imported = [id \in StatisticIds |-> << >>]
    /\ recorded = {}
    /\ nruns = 0
    /\ last_run = << >>
    /\ lock_wait = 0
    /\ reference = NoReference
    /\ entry = LoadedEntry
    /\ point = NoPoint
    /\ registry = NoRegistry
    /\ flow = NoFlow
    /\ failures = 0
    /\ created = NoneCreated
    /\ entries = NoEntries
    /\ committed = NoneCommitted

ReturnSpec == ReturnInit /\ [][Next]_vars

\* ---------------------------------------------------------- partial rows
\* PartialSpec: the importer of ImportSpec when the last row the recorder
\* holds lacks a state or a last_reset (sensor.py:285-295 reads all four
\* with stats.get, which gives None for a value the row does not carry),
\* or when it holds no row.
PartialRows ==
    {r \in [start : Times, state : OptValues, sum : 0..MaxSum,
            last_reset : Times \cup {None}] :
        /\ r.last_reset <= r.start
        /\ r.state = None \/ r.last_reset = None}

PartialInit ==
    /\ data = [s \in {TheSerial} |-> [kind |-> DeviceKind(s), history |-> << >>]]
    /\ last_update_success = TRUE
    /\ last_exception = "none"
    /\ cycle = [pc |-> "idle", is_initial_fetch |-> TRUE,
                fetch_start_date |-> OffsetDate, fetch_end_date |-> OffsetDate,
                run |-> 0]
    /\ ncycles = 0
    /\ fetched = NoDevices
    /\ previous = NoDevices
    /\ entities = {TheSensor}
    /\ tasks = [e \in LtsSensors |-> << >>]
    /\ recorded \in {{}} \cup {{r} : r \in PartialRows}
    /\ stats = [id \in StatisticIds |-> IF id = TheId THEN recorded ELSE {}]
    /\ imported = [id \in StatisticIds |-> << >>]
    /\ nruns = 0
    /\ last_run = << >>
    /\ lock_wait = 0
    /\ reference = NoReference
    /\ entry = LoadedEntry
    /\ point = NoPoint
    /\ registry = NoRegistry
    /\ flow = NoFlow
    /\ failures = 0
    /\ created = NoneCreated
    /\ entries = NoEntries
    /\ committed = NoneCommitted

PartialSpec == PartialInit /\ [][ImportNext]_vars

\* --------------------------------------------------------- signed values
\* SignedSpec: the importer of ImportSpec when a reading may be below zero
\* (sensor.py:309-312 and 374-376 filter by date and by None only) and the
\* sum of the last row may be below zero (sensor.py:292 takes the sum of
\* the row as it is; the recorder lets a user adjust the sum of a row).
\* -2 stands for a value below zero, -1 being None.
SignedReadings == [date : Times, reading : {-2, 0, 1}]

SignedRows ==
    {r \in [start : Times, state : {0, 1}, sum : {-2, 0}, last_reset : Times] :
        r.last_reset <= r.start}

SignedInit ==
    /\ data = [s \in {TheSerial} |-> [kind |-> DeviceKind(s), history |-> << >>]]
    /\ last_update_success = TRUE
    /\ last_exception = "none"
    /\ cycle = [pc |-> "idle", is_initial_fetch |-> TRUE,
                fetch_start_date |-> OffsetDate, fetch_end_date |-> OffsetDate,
                run |-> 0]
    /\ ncycles = 0
    /\ fetched = NoDevices
    /\ previous = NoDevices
    /\ entities = {TheSensor}
    /\ tasks = [e \in LtsSensors |-> << >>]
    /\ recorded \in {{}} \cup {{r} : r \in SignedRows}
    /\ stats = [id \in StatisticIds |-> IF id = TheId THEN recorded ELSE {}]
    /\ imported = [id \in StatisticIds |-> << >>]
    /\ nruns = 0
    /\ last_run = << >>
    /\ lock_wait = 0
    /\ reference = NoReference
    /\ entry = LoadedEntry
    /\ point = NoPoint
    /\ registry = NoRegistry
    /\ flow = NoFlow
    /\ failures = 0
    /\ created = NoneCreated
    /\ entries = NoEntries
    /\ committed = NoneCommitted

SignedNext ==
    \/ \E r \in SignedReadings : ReadingReported(r)
    \/ StartImport
    \/ ImportRead(TheSensor) /\ UNCHANGED runvars
    \/ FinishRun

SignedSpec == SignedInit /\ [][SignedNext]_vars

\* ------------------------------------------------------- failing reads
\* ReadFailSpec: the importer of ImportSpec when the recorder's executor job
\* get_last_statistics may raise.

\* An import that goes on after the failed read as if no row had been found.
ImportReadFailedContinuing(e) ==
    /\ tasks[e] # << >>
    /\ tasks[e][1].pc = "wait"
    /\ tasks' = [tasks EXCEPT ![e][1].pc = "run", ![e][1].last_stats = << >>]
    /\ failures' = failures + 1
    /\ UNCHANGED <<data, last_update_success, last_exception, cycle, ncycles, fetched,
                   previous, entities, stats, imported, recorded, nruns, last_run,
                   lock_wait, reference, entry, point, registry, flow, created, entries, committed>>

\* sensor.py:274-283: the await of the executor job raises inside
\* "async with self._stats_import_lock"; nothing catches it, the lock is
\* released on the way out and the coroutine ends with the exception.
ImportReadFailed(e) ==
    /\ tasks[e] # << >>
    /\ tasks[e][1].pc = "wait"
    /\ tasks' = [tasks EXCEPT ![e] = Tail(@)]
    /\ failures' = failures + 1
    /\ UNCHANGED <<data, last_update_success, last_exception, cycle, ncycles, fetched,
                   previous, entities, stats, imported, recorded, nruns, last_run,
                   lock_wait, reference, entry, point, registry, flow, created, entries, committed>>

ReadFailNext ==
    \/ \E r \in Readings : ReadingReported(r)
    \/ StartImport
    \/ ImportRead(TheSensor) /\ UNCHANGED runvars
    \/ ImportReadFailed(TheSensor)
    \/ FinishRun

ReadFailSpec == ImportInit /\ [][ReadFailNext]_vars

\* -------------------------------------------------------- imports that end
\* LiveSpec: the importer of ImportSpec when a statement inside the lock may
\* raise, with the scheduling of the event loop.  Whatever happens inside
\* "async with self._stats_import_lock" (sensor.py:274), a return at
\* 314-316, the end of the block at 423 or an exception, the lock is
\* released on the way out.  asyncio.Lock wakes the waiting tasks in the
\* order they came, and a task that can run is run: the oldest waiting
\* import takes the lock once it is free, and the import inside the
\* section reaches its end when the recorder's calls return or raise.

\* An import that stays in the section for good when a statement raises.
ImportFinishFailedHoldingLock(e) ==
    /\ tasks[e] # << >>
    /\ tasks[e][1].pc = "run"
    /\ tasks' = [tasks EXCEPT ![e][1].pc = "failed"]
    /\ failures' = failures + 1
    /\ UNCHANGED <<data, last_update_success, last_exception, cycle, ncycles, fetched,
                   previous, entities, stats, imported, recorded, nruns, last_run,
                   lock_wait, reference, entry, point, registry, flow, created, entries, committed>>

\* sensor.py:276-423: a statement inside the lock raises (the executor job
\* of get_last_statistics at 276-283 or the call of
\* async_add_external_statistics at 423 included): nothing is handed to the
\* recorder, the lock is released and the coroutine ends with the exception.
ImportFinishFailed(e) ==
    /\ tasks[e] # << >>
    /\ tasks[e][1].pc = "run"
    /\ tasks' = [tasks EXCEPT ![e] = Tail(@)]
    /\ failures' = failures + 1
    /\ UNCHANGED <<data, last_update_success, last_exception, cycle, ncycles, fetched,
                   previous, entities, stats, imported, recorded, nruns, last_run,
                   lock_wait, reference, entry, point, registry, flow, created, entries, committed>>

\* sensor.py:274: the oldest waiting import enters the section.
TakesLock == ImportRead(TheSensor) /\ UNCHANGED runvars

\* sensor.py:276-424: the import inside the section leaves it.
LeavesLock ==
    \/ ImportFinishFailed(TheSensor)
    \/ FinishRun

LiveNext ==
    \/ \E r \in Readings : ReadingReported(r)
    \/ StartImport
    \/ ImportRead(TheSensor) /\ UNCHANGED runvars
    \/ FinishRun
    \/ ImportFinishFailed(TheSensor)

\* A new installation: the recorder holds no row of the sensor.
LiveInit ==
    /\ ImportInit
    /\ recorded = {}

LiveSpec ==
    /\ LiveInit
    /\ [][LiveNext]_vars
    /\ WF_vars(TakesLock)
    /\ WF_vars(LeavesLock)

\* ------------------------------------------------------- entity creation
\* EntitySpec: the cycles of Spec with, next to the unique ids the platform
\* has noted, the count of the IstaSensor objects it has created.

\* sensor.py:114-147: _add_entities_callback after a successful update;
\* every sensor of new_entities is one more IstaSensor object.
EntityFetchSucceeded(new_devices_history) ==
    /\ FetchSucceeded(new_devices_history)
    /\ created' = [e \in AllSensors |->
                      created[e] + (IF e \in NewEntities(data', entities) THEN 1 ELSE 0)]
    /\ UNCHANGED <<recorded, nruns, last_run, lock_wait, reference, entry, point,
                   registry, flow, failures, entries, committed>>

\* __init__.py:124-134: the unload drops the entities of the load.
EntityReloadEntry ==
    /\ ReloadEntry
    /\ created' = NoneCreated
    /\ UNCHANGED <<recorded, nruns, last_run, lock_wait, reference, entry, point,
                   registry, flow, failures, entries, committed>>

EntityNext ==
    \/ BeginUpdate /\ UNCHANGED runvars
    \/ /\ cycle.pc = "fetching"
       /\ \E new_devices_history \in DeviceSets(cycle.fetch_start_date, cycle.fetch_end_date) :
              EntityFetchSucceeded(new_devices_history)
    \/ (\E err \in Errors : FetchFailed(err)) /\ UNCHANGED runvars
    \/ (\E e \in LtsSensors : ImportRead(e)) /\ UNCHANGED runvars
    \/ (\E e \in LtsSensors : ImportFinish(e)) /\ UNCHANGED runvars
    \/ EntityReloadEntry

EntitySpec == Init /\ [][EntityNext]_vars

\* ------------------------------------------------- two metering points
\* PairSpec: two distinct metering points, for every serial number of up to
\* MaxSerialLen symbols, whose imports compute their statistic ids.  Here
\* the ids are texts in which the key hot_water is the word hot, an
\* underscore and the word water, as in the string the code builds.
PairSymbols == {"d", "hot", "-", "_"}

PairSerials == SeqsUpTo(PairSymbols, MaxSerialLen) \ {<< >>}

KeyText(key) == IF key = "hot_water" THEN <<"hot", "_", "water">> ELSE <<key>>

\* sensor.py:170: f"{serial_number}_{description.key}".
UniqueIdText(serial, key) == serial \o <<"_">> \o KeyText(key)

\* The statistic id with the unique id as it is.
StatisticIdTextKeepingHyphen(unique_id) == <<DOMAIN_NAME, ":">> \o unique_id

\* sensor.py:271: f"{DOMAIN}:{self.unique_id.replace('-', '_')}".
StatisticIdText(unique_id) == <<DOMAIN_NAME, ":">> \o Replace(unique_id, "-", "_")

MeteringPoints == [serial : PairSerials, key : LtsKeys, statistic_id : {<< >>}]

PairInit ==
    /\ IdleSystem
    /\ entry = LoadedEntry
    /\ registry = NoRegistry
    /\ flow = NoFlow
    /\ failures = 0
    /\ created = NoneCreated
    /\ entries = NoEntries
    /\ committed = NoneCommitted
    /\ point \in {<<p, q>> : p \in MeteringPoints, q \in MeteringPoints}
    /\ point[1].serial # point[2].serial \/ point[1].key # point[2].key

\* sensor.py:170, 271: the import of one of the two computes its statistic id.
ImportOfPair(i) ==
    /\ point[i].statistic_id = << >>
    /\ point' = [point EXCEPT
                    ![i].statistic_id =
                        StatisticIdText(UniqueIdText(point[i].serial, point[i].key))]
    /\ UNCHANGED <<sysvars, recorded, nruns, last_run, lock_wait, reference, entry,
                   registry, flow, failures, created, entries, committed>>

PairNext == \E i \in {1, 2} : ImportOfPair(i)

PairSpec == PairInit /\ [][PairNext]_vars

\* ------------------------------------------------------- several entries
\* EntriesSpec: the entries of two accounts are set up, updated and
\* unloaded.  hass.data[DOMAIN]["entities"] is one set for all entries
\* (sensor.py:113, 125); each entry has its coordinator, its devices and the
\* IstaSensor objects its platform created.

\* What the API returns for the account of entry x.
AccountDevices(x) ==
    {d \in DeviceSets(OffsetDate, OffsetDate) : DOMAIN d \subseteq AccountSerials(x)}

\* sensor.py:116-147: _add_entities_callback of entry x on the devices d.
AddEntitiesCallback(en, x, d) ==
    IF DOMAIN d = {} THEN [en EXCEPT !.raised[x] = "none"]
    ELSE IF ~en.has_entities THEN [en EXCEPT !.raised[x] = "KeyError"]
    ELSE LET added == NewEntities(d, en.noted)
         IN  [en EXCEPT
                 !.noted = @ \cup added,
                 !.objects[x] = [e \in AllSensors |-> @[e] + (IF e \in added THEN 1 ELSE 0)],
                 !.raised[x] = "none"]

\* __init__.py:104-108 and sensor.py:106-151: the first refresh, then the
\* platform setup: setdefault of the shared set, the listener, a first call.
SetupEntryOf(x, d) ==
    /\ entries.steps < MaxEntrySteps
    /\ entries.state[x] = "not_loaded"
    /\ entries' = AddEntitiesCallback(
                      [entries EXCEPT !.has_entities = TRUE,
                                      !.state[x] = "loaded",
                                      !.devices[x] = d,
                                      !.steps = @ + 1],
                      x, d)
    /\ UNCHANGED <<sysvars, recorded, nruns, last_run, lock_wait, reference, entry,
                   point, registry, flow, failures, created, committed>>

\* coordinator.py:83-155 for the coordinator of entry x, then its listener.
UpdateEntryOf(x, d) ==
    /\ entries.steps < MaxEntrySteps
    /\ entries.state[x] = "loaded"
    /\ entries' = AddEntitiesCallback(
                      [entries EXCEPT !.devices[x] = d, !.steps = @ + 1], x, d)
    /\ UNCHANGED <<sysvars, recorded, nruns, last_run, lock_wait, reference, entry,
                   point, registry, flow, failures, created, committed>>

\* __init__.py:124-134: the platforms of entry x are unloaded, its
\* entities and its listener with them, and "entities" is popped.
UnloadEntryOf(x) ==
    /\ entries.steps < MaxEntrySteps
    /\ entries.state[x] = "loaded"
    /\ entries' = [entries EXCEPT !.has_entities = FALSE,
                                  !.noted = {},
                                  !.state[x] = "not_loaded",
                                  !.devices[x] = NoDevices,
                                  !.objects[x] = NoneCreated,
                                  !.raised[x] = "none",
                                  !.steps = @ + 1]
    /\ UNCHANGED <<sysvars, recorded, nruns, last_run, lock_wait, reference, entry,
                   point, registry, flow, failures, created, committed>>

EntriesInit ==
    /\ IdleSystem
    /\ entry = LoadedEntry
    /\ point = NoPoint
    /\ registry = NoRegistry
    /\ flow = NoFlow
    /\ failures = 0
    /\ created = NoneCreated
    /\ entries = NoEntries
    /\ committed = NoneCommitted

EntriesNext ==
    \/ \E x \in Entries : \E d \in AccountDevices(x) : SetupEntryOf(x, d)
    \/ \E x \in Entries : \E d \in AccountDevices(x) : UpdateEntryOf(x, d)
    \/ \E x \in Entries : UnloadEntryOf(x)

EntriesSpec == EntriesInit /\ [][EntriesNext]_vars

\* ------------------------------------------------------ a lagging recorder
\* AsyncSpec: the system of Spec with the recorder as the import meets it.
\* async_add_external_statistics (sensor.py:417-423) hands the batch to the
\* recorder and returns; the import leaves the lock (274) without waiting
\* for the rows.  get_last_statistics (276-283) reads the rows written so
\* far.  The recorder writes the batches of a statistic id in the order it
\* was handed them, each batch as a whole.

\* sensor.py:285-424: the task holding the lock computes the new
\* statistics, hands them to the recorder when there are any, and releases.
\* The finished import is noted with what it read and produced.
AsyncImportFinish(e) ==
    /\ tasks[e] # << >>
    /\ tasks[e][1].pc = "run"
    /\ LET id == SensorStatisticId(e)
           statistics_to_import ==
               StatisticsToImport(tasks[e][1].history, tasks[e][1].last_stats)
       IN  /\ imported' = IF statistics_to_import # << >>
                          THEN [imported EXCEPT ![id] = Append(@, statistics_to_import)]
                          ELSE imported
           /\ last_run' = Append(last_run,
                             [sensor |-> e,
                              history |-> tasks[e][1].history,
                              last_stats |-> tasks[e][1].last_stats,
                              points |-> statistics_to_import])
    /\ tasks' = [tasks EXCEPT ![e] = Tail(@)]
    /\ UNCHANGED <<data, last_update_success, last_exception, cycle, ncycles,
                   fetched, previous, entities, stats, recorded, nruns, lock_wait,
                   reference, entry, point, registry, flow, failures, created,
                   entries, committed>>

\* The recorder writes the oldest batch of a statistic id it has not
\* written yet (sensor.py:423, the rows stored by start).
RecorderCommits(id) ==
    /\ committed[id] < Len(imported[id])
    /\ stats' = [stats EXCEPT
                    ![id] = AddExternalStatistics(@, imported[id][committed[id] + 1])]
    /\ committed' = [committed EXCEPT ![id] = @ + 1]
    /\ UNCHANGED <<data, last_update_success, last_exception, cycle, ncycles,
                   fetched, previous, entities, tasks, imported, recorded, nruns,
                   last_run, lock_wait, reference, entry, point, registry, flow,
                   failures, created, entries>>

AsyncNext ==
    \/ BeginUpdate /\ UNCHANGED runvars
    \/ /\ cycle.pc = "fetching"
       /\ \E new_devices_history \in DeviceSets(cycle.fetch_start_date, cycle.fetch_end_date) :
              FetchSucceeded(new_devices_history)
       /\ UNCHANGED runvars
    \/ (\E err \in Errors : FetchFailed(err)) /\ UNCHANGED runvars
    \/ (\E e \in LtsSensors : ImportRead(e)) /\ UNCHANGED runvars
    \/ \E e \in LtsSensors : AsyncImportFinish(e)
    \/ \E id \in StatisticIds : RecorderCommits(id)
    \/ ReloadEntry /\ UNCHANGED runvars

AsyncSpec == Init /\ [][AsyncNext]_vars

\* ----------------------------------------------------------------- claims
\* The coordinator holds the result of an incremental merge: the last cycle
\* was not an initial fetch, it returned, and no cycle has started since.
Merged ==
    /\ cycle.pc = "idle"
    /\ ~cycle.is_initial_fetch
    /\ last_exception = "none"
    /\ DOMAIN previous # {}

\* The histories the merge is looked at for, apart from those of the cycles.
MergeInputs == SortedHistories(Times, MaxLen - 1)

\* C1: merging the fetched set once more into the result of an incremental
\* merge gives that result again: the same serials, and for each serial the
\* same ordered history.
\* It holds of every merge the coordinator runs, and of the merge of any
\* two histories of ascending dates (looked at once, before the first cycle).
C1_MergeIdempotent ==
    /\ Merged => MergeDevices(data, fetched) = data
    /\ ncycles = 0 =>
           \A existing \in MergeInputs, new \in MergeInputs :
               MergedHistory(MergedHistory(existing, new), new)
                   = MergedHistory(existing, new)

\* C1 witness: a merge in which a device was in both sets and the fetched
\* history brought a reading the previous history did not hold.
C1_Witness ==
    /\ Merged
    /\ \E s \in DOMAIN previous \cap DOMAIN fetched :
           /\ previous[s].history # << >>
           /\ fetched[s].history # << >>
           /\ Dates(fetched[s].history) \cap Dates(previous[s].history) = {}

\* Two histories hold a reading at date t with different values.
Conflict(old, new, t) ==
    \E i \in DOMAIN old, j \in DOMAIN new :
        /\ old[i].date = t
        /\ new[j].date = t
        /\ old[i].reading # new[j].reading

\* History h holds exactly one reading at the date of r, and it is r.
HoldsOnce(h, r) ==
    /\ Cardinality({k \in DOMAIN h : h[k].date = r.date}) = 1
    /\ \A k \in DOMAIN h : h[k].date = r.date => h[k] = r

\* C2: where the previous and the fetched history of a device hold a reading
\* at the same date with different values, the merged history holds exactly
\* one reading at that date, and it is the fetched one.
\* It holds of every merge the coordinator runs, and of the merge of any
\* two histories of ascending dates (looked at once, before the first cycle).
C2_FetchedWins ==
    /\ Merged =>
           \A s \in DOMAIN previous \cap DOMAIN fetched : \A t \in Times :
               Conflict(previous[s].history, fetched[s].history, t) =>
                   HoldsOnce(data[s].history, LastAt(fetched[s].history, t))
    /\ ncycles = 0 =>
           \A existing \in MergeInputs, new \in MergeInputs : \A t \in Times :
               Conflict(existing, new, t) =>
                   HoldsOnce(MergedHistory(existing, new), LastAt(new, t))

\* C2 witness: a merge whose two histories disagreed at a date.
C2_Witness ==
    /\ Merged
    /\ \E s \in DOMAIN previous \cap DOMAIN fetched : \E t \in Times :
           Conflict(previous[s].history, fetched[s].history, t)

\* A step that ends a successful incremental cycle.
MergeStep ==
    /\ cycle.pc = "fetching"
    /\ ~cycle.is_initial_fetch
    /\ cycle'.pc = "idle"
    /\ last_exception' = "none"

\* No step takes a row out of a series of the recorder.
RowsKept ==
    \A id \in StatisticIds : \A r \in stats[id] :
        \E r2 \in stats'[id] : r2.start = r.start

\* C3: an incremental merge leaves exactly the fetched serials, so a device
\* that was held and is no longer fetched is gone with its history; the
\* cycle does not touch the recorder, and no step removes a statistics row.
C3_DeviceRemoval ==
    [][/\ MergeStep => /\ DOMAIN data' = DOMAIN fetched'
                       /\ stats' = stats
       /\ RowsKept]_vars

\* C3 witness: a device with statistics in the recorder was dropped by a
\* merge that kept another device.
C3_Witness ==
    /\ Merged
    /\ DOMAIN data # {}
    /\ \E s \in DOMAIN previous \ DOMAIN fetched :
           /\ s \notin DOMAIN data
           /\ \E e \in LtsSensors : e.serial = s /\ stats[SensorStatisticId(e)] # {}

\* A step that ends a cycle whose fetch failed.
FailStep ==
    /\ cycle.pc = "fetching"
    /\ cycle'.pc = "idle"
    /\ last_exception' # "none"

\* A step in which an import task created by a failed update finishes.
FailedUpdateImportFinishes(e) ==
    /\ tasks[e] # << >>
    /\ tasks[e][1].pc = "run"
    /\ tasks[e][1].after_failure
    /\ tasks'[e] = Tail(tasks[e])

\* C10: a cycle whose fetch fails marks the update failed, merges nothing and
\* leaves the held devices and every series of the recorder as they were;
\* the imports the notified sensors start hand nothing to the recorder.
C10_FailedCycle ==
    [][/\ FailStep => /\ ~last_update_success'
                      /\ data' = data
                      /\ fetched' = fetched
                      /\ stats' = stats
                      /\ imported' = imported
       /\ \A e \in LtsSensors :
              FailedUpdateImportFinishes(e) => stats' = stats /\ imported' = imported]_vars

\* C10 witness: after a failed cycle that found devices and statistics, an
\* import started by the notification holds the lock.
C10_Witness ==
    /\ last_exception # "none"
    /\ ~last_update_success
    /\ \E e \in LtsSensors :
           /\ e.serial \in DOMAIN data
           /\ stats[SensorStatisticId(e)] # {}
           /\ tasks[e] # << >>
           /\ tasks[e][1].pc = "run"
           /\ tasks[e][1].after_failure

\* All the points of a sequence of batches, in order.
RECURSIVE Flatten(_)
Flatten(batches) ==
    IF batches = << >> THEN << >>
    ELSE Head(batches) \o Flatten(Tail(batches))

Sums(points) == [i \in DOMAIN points |-> points[i].sum]

RunFinishes ==
    /\ tasks[TheSensor] # << >>
    /\ tasks[TheSensor][1].pc = "run"
    /\ tasks'[TheSensor] = Tail(tasks[TheSensor])

\* C5: an import run on the history of the import before it, the recorder
\* holding what that import left, produces no point and hands nothing to
\* the recorder.
C5_IdempotentReplay ==
    [][(/\ RunFinishes
        /\ last_run # << >>
        /\ tasks[TheSensor][1].history = last_run[1].history)
       => /\ last_run'[1].points = << >>
          /\ stats' = stats
          /\ imported' = imported]_vars

\* The readings of h that have a value and are dated after t.
ValuedAfter(h, t) == SelectSeq(h, LAMBDA r : r.reading # None /\ r.date > t)

\* C5 witness: a first import produced a point for every valued reading of
\* the history; a second import of the same history read the last of these
\* points as its last row and produced nothing.
C5_Witness ==
    /\ nruns = 2
    /\ tasks[TheSensor] = << >>
    /\ last_run # << >>
    /\ last_run[1].points = << >>
    /\ last_run[1].history = data[TheSerial].history
    /\ Len(imported[TheId]) = 1
    /\ last_run[1].last_stats = TailOf(imported[TheId][1])
    /\ Len(imported[TheId][1]) =
           Len(ValuedAfter(last_run[1].history,
                           Checkpoint(GetLastStatistics(recorded)).last_stat_end_ts))

\* What the point before point i of a run was: the point itself, or for the
\* first point the last row the run read.
Before(run, i) ==
    IF i > 1
    THEN [state |-> run.points[i - 1].state, sum |-> run.points[i - 1].sum,
          last_reset |-> run.points[i - 1].last_reset]
    ELSE [state |-> Checkpoint(run.last_stats).last_state,
          sum |-> Checkpoint(run.last_stats).running_sum,
          last_reset |-> Checkpoint(run.last_stats).last_reset_ts]

\* C6: a point whose value is lower than the value before it adds its own
\* value to the sum and carries its own timestamp as last_reset; a point
\* whose value is equal or higher adds the difference and keeps the
\* last_reset before it.  Values 100, 110, 5 without statistics give the
\* sums 0, 10, 15 and the third point's last_reset is its timestamp.
C6_ResetAccounting ==
    /\ LET pts == StatisticsToImport(
                      <<Reading(1, 100), Reading(2, 110), Reading(3, 5)>>, << >>)
       IN  Sums(pts) = <<0, 10, 15>> /\ pts[3].last_reset = 3
    /\ last_run # << >> =>
           LET run == last_run[1]
           IN  \A i \in DOMAIN run.points :
                   LET p == run.points[i]
                       b == Before(run, i)
                   IN  b.state # None =>
                           IF p.state < b.state
                           THEN p.sum = b.sum + p.state /\ p.last_reset = p.start
                           ELSE /\ p.sum = b.sum + (p.state - b.state)
                                /\ p.last_reset = b.last_reset

\* C6 witness: an import met a reset to a value above 0 after the sum had
\* grown, and the point after the reset kept its last_reset.
C6_Witness ==
    /\ last_run # << >>
    /\ LET pts == last_run[1].points
       IN  /\ Len(pts) = 3
           /\ pts[1].sum < pts[2].sum
           /\ pts[3].state < pts[2].state
           /\ pts[3].state > 0

StartStateSum(points) ==
    [i \in DOMAIN points |-> <<points[i].start, points[i].state, points[i].sum>>]

\* C7: a reading without a value gives no point and changes neither the sum
\* nor the value the next reading is compared with: start, state and sum of
\* the points are those of the history without these readings; last_reset
\* changes between two points only where the value decreases.  Values
\* 500, None, 510 give two points with the sums 0 and 10.
C7_SkipNone ==
    /\ LET pts == StatisticsToImport(
                      <<Reading(1, 500), Reading(2, None), Reading(3, 510)>>, << >>)
       IN  Len(pts) = 2 /\ Sums(pts) = <<0, 10>>
    /\ last_run # << >> =>
           LET run == last_run[1]
               valued == SelectSeq(run.history, LAMBDA r : r.reading # None)
           IN  /\ \A i \in DOMAIN run.points :
                      \E k \in DOMAIN run.history :
                          /\ run.history[k].date = run.points[i].start
                          /\ run.history[k].reading # None
               /\ StartStateSum(run.points) =
                      StartStateSum(StatisticsToImport(valued, run.last_stats))
               /\ \A i \in 2..Len(run.points) :
                      run.points[i].last_reset # run.points[i - 1].last_reset
                          => run.points[i].state < run.points[i - 1].state

\* C7 witness: an import of a history with an absent value between two
\* valued readings, both new.
C7_Witness ==
    /\ last_run # << >>
    /\ LET run == last_run[1]
       IN  /\ Len(run.history) = 3
           /\ run.history[1].reading # None
           /\ run.history[2].reading = None
           /\ run.history[3].reading # None
           /\ Len(run.points) = 2
           /\ run.points[2].sum > run.points[1].sum

\* What the points up to point i add up to when the first is the baseline.
RECURSIVE IncreaseSince(_, _)
IncreaseSince(points, i) ==
    IF i <= 1 THEN 0
    ELSE IncreaseSince(points, i - 1)
         + (IF points[i].state < points[i - 1].state THEN points[i].state
            ELSE points[i].state - points[i - 1].state)

\* C8: without statistics in the recorder, the first point of an import has
\* the sum 0 and every later point the increase accumulated since the first.
\* Values 1000, 1050 give the sums 0, 50.
C8_FirstImportBaseline ==
    /\ Sums(StatisticsToImport(<<Reading(1, 1000), Reading(2, 1050)>>, << >>)) = <<0, 50>>
    /\ (last_run # << >> /\ last_run[1].last_stats = << >>) =>
           \A i \in DOMAIN last_run[1].points :
               last_run[1].points[i].sum = IncreaseSince(last_run[1].points, i)

\* C8 witness: a first import of two readings, the first above 0.
C8_Witness ==
    /\ last_run # << >>
    /\ last_run[1].last_stats = << >>
    /\ Len(last_run[1].points) >= 2
    /\ last_run[1].points[1].state > 0
    /\ last_run[1].points[2].state > last_run[1].points[1].state

\* C9 as claimed: the imports together produce the points of one import of
\* the whole history, and the first point of every import after the first
\* has the sum of the last row plus its value minus the state of the last row.
C9_AsClaimed ==
    last_run # << >> =>
        /\ Flatten(imported[TheId]) =
               StatisticsToImport(last_run[1].history, GetLastStatistics(recorded))
        /\ \A k \in 2..Len(imported[TheId]) :
               LET p == imported[TheId][k][1]
                   q == imported[TheId][k - 1][Len(imported[TheId][k - 1])]
               IN  p.sum = q.sum + (p.state - q.state)

\* C9 amended: the imports together produce the points of one import of the
\* whole history; the first point of an import after the first has the sum
\* of the last row plus its value minus the state of the last row when its
\* value is not lower than that state, and plus its value when it is.
C9_SplitEquivalence ==
    last_run # << >> =>
        /\ Flatten(imported[TheId]) =
               StatisticsToImport(last_run[1].history, GetLastStatistics(recorded))
        /\ \A k \in 2..Len(imported[TheId]) :
               LET p == imported[TheId][k][1]
                   q == imported[TheId][k - 1][Len(imported[TheId][k - 1])]
               IN  p.sum = IF p.state < q.state THEN q.sum + p.state
                           ELSE q.sum + (p.state - q.state)

\* C9 witness: a history imported in two runs, each producing points, the
\* second starting with an increase.
C9_Witness ==
    /\ last_run # << >>
    /\ Len(imported[TheId]) = 2
    /\ imported[TheId][2][1].state > imported[TheId][1][Len(imported[TheId][1])].state
    /\ last_run[1].points = imported[TheId][2]

\* A step that ends a successful incremental cycle whose response is empty.
EmptyMergeStep == MergeStep /\ fetched' = NoDevices

\* C11 as claimed: an incremental cycle whose fetch returns no device keeps
\* the devices held before it, with their histories.
C11_AsClaimed ==
    [][EmptyMergeStep =>
          \A s \in DOMAIN data :
              s \in DOMAIN data' /\ data'[s].history = data[s].history]_vars

\* C11 amended: an incremental cycle whose fetch returns no device leaves
\* the coordinator without devices, so the cycle after it is an initial
\* fetch; the recorder keeps every row.
C11_EmptyResponseErases ==
    [][EmptyMergeStep =>
          /\ data' = NoDevices
          /\ IsInitialFetch(data')
          /\ stats' = stats]_vars

\* C11 witness: an incremental cycle got an empty response while a device
\* with readings was held, and the device is gone.
C11_Witness ==
    /\ Merged
    /\ fetched = NoDevices
    /\ \E s \in DOMAIN previous : previous[s].history # << >>
    /\ data = NoDevices

Max(a, b) == IF a >= b THEN a ELSE b

\* C12: a cycle that is not the initial fetch asks for the period from the
\* start of the trailing window, or from the configured start date when
\* the window starts before it, to today.
C12_TrailingWindowBounded ==
    (cycle.pc = "fetching" /\ ~cycle.is_initial_fetch) =>
        /\ cycle.fetch_start_date
               = Max(OffsetDate, Today(ncycles - 1) - TrailingWindow)
        /\ cycle.fetch_end_date = Today(ncycles - 1)

\* C13 as claimed: a cycle that is not the first of its coordinator and
\* follows a cycle that returned is not an initial fetch.
C13_AsClaimed ==
    (cycle.pc = "fetching" /\ cycle.run > 1 /\ last_exception = "none")
        => ~cycle.is_initial_fetch

\* C13 amended: a cycle asks for the period from the configured start date
\* exactly when the coordinator holds no device as it starts (the first
\* cycle, a cycle after a failed first cycle, a cycle after an empty
\* response); a cycle that starts with devices held, and so every cycle
\* after one that returned devices, asks for the trailing window.
C13_WideWindowIffNoDevices ==
    cycle.pc = "fetching" =>
        /\ cycle.is_initial_fetch <=> DOMAIN data = {}
        /\ cycle.fetch_start_date =
               IF DOMAIN data = {} THEN OffsetDate
               ELSE Today(ncycles - 1) - TrailingWindow
        /\ cycle.run = 1 => cycle.is_initial_fetch
        /\ (cycle.run > 1 /\ last_exception = "none" /\ DOMAIN fetched # {})
               => ~cycle.is_initial_fetch

\* C13 witness: the second cycle of a coordinator, after a first cycle that
\* returned no device, asks for the period from the configured start date.
C13_Witness ==
    /\ cycle.pc = "fetching"
    /\ cycle.run = 2
    /\ last_exception = "none"
    /\ cycle.is_initial_fetch
    /\ cycle.fetch_start_date = OffsetDate

\* C14: every history the coordinator holds has strictly ascending dates,
\* whatever the order and the repetitions of the responses.
C14_HistoriesNormalised ==
    \A s \in DOMAIN data : IsSorted(data[s].history)

\* No two readings of h have the same date.
UniqueDates(h) == \A i, j \in DOMAIN h : h[i].date = h[j].date => i = j

\* C15: after an incremental merge, a device that was held and is fetched
\* again has every date of its previous history in its history, every
\* fetched reading too (the fetched history holding each date once), and
\* the kind and the location of the fetched device.
C15_HistoryGrows ==
    Merged =>
        \A s \in DOMAIN previous \cap DOMAIN fetched :
            /\ Dates(previous[s].history) \subseteq Dates(data[s].history)
            /\ UniqueDates(fetched[s].history) =>
                   \A i \in DOMAIN fetched[s].history :
                       \E k \in DOMAIN data[s].history :
                           data[s].history[k] = fetched[s].history[i]
            /\ data[s].kind = fetched[s].kind
            /\ data[s].location = fetched[s].location

\* C15 witness: a merge of a device whose location changed, the previous
\* history holding a date the fetched one does not and the other way round.
C15_Witness ==
    /\ Merged
    /\ \E s \in DOMAIN previous \cap DOMAIN fetched :
           /\ previous[s].location # fetched[s].location
           /\ UniqueDates(fetched[s].history)
           /\ Dates(previous[s].history) \ Dates(fetched[s].history) # {}
           /\ Dates(fetched[s].history) \ Dates(previous[s].history) # {}
           /\ data[s].location = fetched[s].location

\* The imports that are between reading the last row of statistic id and
\* handing their points to the recorder.
InSection(id) ==
    {p \in UNION {{<<e, i>> : i \in DOMAIN tasks[e]} : e \in LtsSensors} :
        SensorStatisticId(p[1]) = id /\ tasks[p[1]][p[2]].pc = "run"}

LockTimeout == 1

\* C18: no import waits for the lock longer than the timeout: at the
\* timeout it gives up, and so is never seen waiting beyond it.
C18_LockWaitBounded == lock_wait <= LockTimeout

CycleComplete ==
    /\ cycle.pc = "idle"
    /\ last_exception = "none"
    /\ DOMAIN data # {}
    /\ Pending = {}

\* The start and the sum of each row of a series.
StartsAndSums(series) == {<<r.start, r.sum>> : r \in series}

\* The recorder holds what the run without abandoned imports holds, one
\* row per start.
SameAsUninterrupted ==
    \A id \in StatisticIds :
        /\ stats[id] = reference.sink[id]
        /\ \A r1, r2 \in stats[id] : r1.start = r2.start => r1 = r2

C21_LoginFailureIsAuthFailure ==
    /\ entry.cause = "IstaLoginError" => entry.raised = "ConfigEntryAuthFailed"
    /\ entry.cause \in Errors \ {"IstaLoginError"} =>
           entry.raised = IF entry.at = "setup" THEN "ConfigEntryNotReady"
                          ELSE "UpdateFailed"
    /\ entry.at = "cycle" => (last_exception # "none" => entry.raised = last_exception)

\* C21 witness: the login has failed at a setup, the entry was loaded at a
\* later one, and a cycle of it has failed with a login failure.
C21_Witness ==
    /\ entry.cause = "IstaLoginError"
    /\ entry.at = "cycle"
    /\ entry.raised = "ConfigEntryAuthFailed"
    /\ ~last_update_success

\* A string with every character that is not alphanumeric replaced by "_".
Normalised(str) == [i \in DOMAIN str |-> IF str[i] \in Alphanumeric THEN str[i] ELSE "_"]

WrittenIds == {SensorStatisticId(e) : e \in registry.sensors}

C24_EntryOnlyWithoutError ==
    LET too_recent == flow.offset # None /\ flow.offset > flow.today - Month
        valid == flow.offset # None /\ flow.offset <= flow.today - Month
        refused(key, error) == /\ flow.errors[key] = error
                               /\ flow.result = "form"
                               /\ flow.entries = 0
    IN  /\ flow.entries > 0 =>
               flow.result = "create_entry" /\ flow.errors = NoErrors /\ flow.entries = 1
        /\ flow.result = "create_entry" => valid /\ flow.outcome = "ok"
        /\ flow.submits > 0 =>
               /\ too_recent => refused("offset", "offset_too_recent") /\ ~flow.login_attempted
               /\ valid /\ flow.outcome = "IstaLoginError" => refused("base", "invalid_auth")
               /\ valid /\ flow.outcome \in {"IstaConnectionError", "IstaApiError"} =>
                      refused("base", "cannot_connect")
               /\ valid /\ flow.outcome = "Exception" => refused("base", "unknown")
        /\ flow.logins <= flow.submits
        /\ (flow.submits = 1 /\ too_recent) => flow.logins = 0

\* C24 witness: after a form refused without a login, a second input
\* with a date of a month ago fails at the login, and the form is shown.
C24_Witness ==
    /\ flow.submits = 2
    /\ flow.logins = 1
    /\ flow.errors.base = "invalid_auth"
    /\ flow.offset = flow.today - Month
    /\ flow.result = "form"

\* The oldest import of sensor e finishes in this step, and it is the import
\* of a device that the last incremental merge took from the response
\* without having held it.
NewDeviceImportFinishes(e) ==
    /\ Merged
    /\ e.serial \in DOMAIN data \ DOMAIN previous
    /\ tasks[e] # << >>
    /\ tasks[e][1].pc = "run"
    /\ tasks[e][1].history = data[e.serial].history
    /\ tasks'[e] = Tail(tasks[e])

\* The points the oldest import of sensor e hands to the recorder.
PointsOf(e) == StatisticsToImport(tasks[e][1].history, tasks[e][1].last_stats)

\* An incremental merge takes a device it did not hold as it was fetched.
NewDeviceAsFetched ==
    MergeStep => \A s \in DOMAIN fetched' \ DOMAIN data : data'[s] = fetched'[s]

\* C25 as stated: a device fetched and not held before has its fetched
\* history in the merged set, and the next import of its sensor is a first
\* import: its first point adds nothing to the sum, which is the sum the
\* recorder held (0 when it held none).
C25_AsClaimed ==
    [][/\ NewDeviceAsFetched
       /\ \A e \in LtsSensors :
              (NewDeviceImportFinishes(e) /\ PointsOf(e) # << >>) =>
                  PointsOf(e)[1].sum = IF tasks[e][1].last_stats = << >> THEN 0
                                       ELSE tasks[e][1].last_stats[1].sum]_vars

\* C25: a device fetched and not held before has its fetched history in the
\* merged set; the next import of its sensor is a first import, its first
\* point with sum 0, when the recorder holds no row of the sensor; when it
\* holds one, the first point adds its increase over that row's state (its
\* own value after a decrease) to that row's sum.
C25_NewDeviceFirstImport ==
    [][/\ NewDeviceAsFetched
       /\ \A e \in LtsSensors :
              (NewDeviceImportFinishes(e) /\ PointsOf(e) # << >>) =>
                  LET first == PointsOf(e)[1]
                      last_stats == tasks[e][1].last_stats
                  IN  IF last_stats = << >> THEN first.sum = 0
                      ELSE LET increase == first.state - last_stats[1].state
                           IN  first.sum = last_stats[1].sum +
                                   (IF increase < 0 THEN first.state ELSE increase)]_vars

\* C25 witness: a device that an incremental merge took as fetched, with a
\* reading above 0, has had its import: one point of sum 0.
C25_Witness ==
    /\ Merged
    /\ \E e \in LtsSensors :
           /\ e.serial \in DOMAIN data \ DOMAIN previous
           /\ data[e.serial] = fetched[e.serial]
           /\ tasks[e] = << >>
           /\ Len(imported[SensorStatisticId(e)]) = 1
           /\ imported[SensorStatisticId(e)][1][1].state > 0
           /\ imported[SensorStatisticId(e)][1][1].sum = 0

\* C26 as stated: while a device is absent from the held devices, no step
\* changes the series of one of its sensors.
C26_AsClaimed ==
    [][\A e \in LtsSensors :
           e.serial \notin DOMAIN data =>
               stats'[SensorStatisticId(e)] = stats[SensorStatisticId(e)]]_vars

\* C26: no import is started for a sensor whose device is absent from the
\* devices an update leaves, and once the imports started while the device
\* was held have finished, no step changes the series of the sensor while
\* the device is absent.
C26_NoImportForAbsentDevice ==
    [][\A e \in LtsSensors :
           /\ e.serial \notin DOMAIN data' => Len(tasks'[e]) <= Len(tasks[e])
           /\ (e.serial \notin DOMAIN data /\ tasks[e] = << >>) =>
                  stats'[SensorStatisticId(e)] = stats[SensorStatisticId(e)]]_vars

\* C26 witness: an incremental merge has dropped a device whose sensor has
\* statistics and listens; the sensor has no import, a sensor of a device
\* still held has one.
C26_Witness ==
    /\ Merged
    /\ \E e \in entities \cap LtsSensors :
           /\ e.serial \in DOMAIN previous \ DOMAIN data
           /\ tasks[e] = << >>
           /\ stats[SensorStatisticId(e)] # {}
    /\ \E e \in entities \cap LtsSensors :
           e.serial \in DOMAIN data /\ tasks[e] # << >>

\* The readings an import has to turn into points: those of the history
\* with a value and a timestamp after the end of the last row it read.
Candidates(run) ==
    ValuedAfter(run.history, Checkpoint(run.last_stats).last_stat_end_ts)

\* C27: an import produces one point per reading of the history that has a
\* value and is dated after the end of the last row (every valued reading
\* without a last row), in ascending order of start, the start being the
\* reading's timestamp and the state its value.  A history held out of
\* order, (3, 9), (1, 5), (2, 7) after a row ending at 1, gives the points
\* of 2 and 3 in this order.
C27_OnePointPerCandidate ==
    /\ LET pts == StatisticsToImport(
                      <<Reading(3, 9), Reading(1, 5), Reading(2, 7)>>,
                      <<[end |-> 1, state |-> 5, sum |-> 0, last_reset |-> 1]>>)
       IN  [i \in DOMAIN pts |-> <<pts[i].start, pts[i].state>>] = <<<<2, 7>>, <<3, 9>>>>
    /\ last_run # << >> =>
           LET run == last_run[1]
               cands == Candidates(run)
           IN  /\ Len(run.points) = Len(cands)
               /\ \A i \in DOMAIN run.points :
                      /\ run.points[i].start = cands[i].date
                      /\ run.points[i].state = cands[i].reading
               /\ \A i \in 1..(Len(run.points) - 1) :
                      run.points[i].start < run.points[i + 1].start

\* C27 witness: an import that read a last row, of a history with a valued
\* reading not after the row, a reading without value after it and a
\* valued reading after it: the points are fewer than the readings.
C27_Witness ==
    /\ last_run # << >>
    /\ LET run == last_run[1]
           end == Checkpoint(run.last_stats).last_stat_end_ts
       IN  /\ run.last_stats # << >>
           /\ \E k \in DOMAIN run.history :
                  run.history[k].reading # None /\ run.history[k].date <= end
           /\ \E k \in DOMAIN run.history :
                  run.history[k].reading = None /\ run.history[k].date > end
           /\ Len(run.points) >= 1

\* The value point i of a run was compared with: the state of the point
\* before it, or for the first point the value the import started from.
ComparedWith(run, i) ==
    IF i > 1 THEN run.points[i - 1].state
    ELSE LET cp == Checkpoint(run.last_stats)
         IN  PreviousState(run.history,
                           NewReadings(run.history, cp.last_stat_end_ts),
                           cp.last_state)

\* The last_reset of the points of a run follows from an initial value:
\* a point whose value is below the value it is compared with carries its
\* own start, every other point the last_reset of the point before it, the
\* first one the last_reset of the last row or, when there is none, initial.
LastResetFollows(run, initial) ==
    \A i \in DOMAIN run.points :
        run.points[i].last_reset =
            IF ComparedWith(run, i) # None /\ run.points[i].state < ComparedWith(run, i)
            THEN run.points[i].start
            ELSE IF i > 1 THEN run.points[i - 1].last_reset
            ELSE IF Checkpoint(run.last_stats).last_reset_ts # None
            THEN Checkpoint(run.last_stats).last_reset_ts
            ELSE initial

\* C28 as stated: without a last_reset in the last row, the last_reset of
\* the points starts as the timestamp of the first new reading that has a
\* value.
C28_AsClaimed ==
    (last_run # << >> /\ last_run[1].points # << >>) =>
        LastResetFollows(last_run[1], Candidates(last_run[1])[1].date)

\* C28: without a last_reset in the last row, the last_reset of the points
\* starts as the timestamp of the first new reading, with or without a
\* value, and stays on every later point until a point's value is below the
\* value before it; with a last_reset in the last row, that one is carried
\* until then.
C28_LastResetCarried ==
    (last_run # << >> /\ last_run[1].points # << >>) =>
        LastResetFollows(last_run[1],
            NewReadings(last_run[1].history,
                        Checkpoint(last_run[1].last_stats).last_stat_end_ts)[1].date)

\* C28 witness: an import without a last_reset to start from, whose first
\* new reading has no value, produced two points without a reset between.
C28_Witness ==
    /\ last_run # << >>
    /\ LET run == last_run[1]
           cp == Checkpoint(run.last_stats)
           new_readings == NewReadings(run.history, cp.last_stat_end_ts)
       IN  /\ cp.last_reset_ts = None
           /\ new_readings # << >>
           /\ new_readings[1].reading = None
           /\ Len(run.points) = 2
           /\ run.points[1].state < run.points[2].state
           /\ run.points[2].last_reset = new_readings[1].date

\* The value of the reading the history holds just before the readings
\* dated after t; None when it has no value or there is no such reading.
ValueHeldAt(h, t) ==
    LET older == SelectSeq(h, LAMBDA r : r.date <= t)
    IN  IF older = << >> THEN None ELSE older[Len(older)].reading

\* The sum of the first point of a run when it is compared with prev: the
\* sum of the last row when prev is absent, else that sum plus the point's
\* increase over prev, or plus the point's state when it is below prev.
FirstSumFrom(run, prev) ==
    LET p == run.points[1]
        running_sum == Checkpoint(run.last_stats).running_sum
    IN  p.sum = IF prev = None THEN running_sum
                ELSE IF p.state < prev THEN running_sum + p.state
                ELSE running_sum + (p.state - prev)

\* C29 as stated: the first point is compared with the state of the last
\* row; without such a state its sum is the sum of the last row (0 without
\* a row), whatever the history holds.
C29_AsClaimed ==
    (last_run # << >> /\ last_run[1].points # << >>) =>
        FirstSumFrom(last_run[1], Checkpoint(last_run[1].last_stats).last_state)

\* C29: the first point is compared with the state of the last row; when
\* the row has no state, with the value of the reading the history holds
\* just before the new readings; only when that is absent too is its sum
\* the sum of the last row (0 without a row).
C29_PreviousValue ==
    (last_run # << >> /\ last_run[1].points # << >>) =>
        LET run == last_run[1]
            cp == Checkpoint(run.last_stats)
        IN  FirstSumFrom(run, IF cp.last_state # None THEN cp.last_state
                              ELSE ValueHeldAt(run.history, cp.last_stat_end_ts))

\* C29 witness: the last row has no state, the history holds a valued
\* reading not after the row, and the first point adds its increase over
\* that reading to the sum of the row.
C29_Witness ==
    /\ last_run # << >>
    /\ LET run == last_run[1]
           cp == Checkpoint(run.last_stats)
       IN  /\ run.last_stats # << >>
           /\ cp.last_state = None
           /\ ValueHeldAt(run.history, cp.last_stat_end_ts) # None
           /\ run.points # << >>
           /\ run.points[1].sum > cp.running_sum
           /\ run.points[1].state > ValueHeldAt(run.history, cp.last_stat_end_ts)

\* An import of the sensor is started in this step.
ImportStarts == nruns' = nruns + 1

\* C30: an import started for a device without history, and an import whose
\* history has no valued reading after the end of the last row it read,
\* hand nothing to the recorder: the series and the batches handed over
\* stay as they are, and the import ends.
C30_NothingNewNoAppend ==
    [][/\ (ImportStarts /\ data[TheSerial].history = << >>) =>
              /\ tasks' = tasks
              /\ stats' = stats
              /\ imported' = imported
       /\ (RunFinishes /\ Candidates(tasks[TheSensor][1]) = << >>) =>
              /\ stats' = stats
              /\ imported' = imported
              /\ last_run'[1].points = << >>]_vars

\* C30 witness: the only import so far read a last row, its history had a
\* valued reading not after the row and a reading without value after it;
\* it has ended and nothing was handed to the recorder.
C30_Witness ==
    /\ nruns = 1
    /\ tasks[TheSensor] = << >>
    /\ last_run # << >>
    /\ LET run == last_run[1]
           end == Checkpoint(run.last_stats).last_stat_end_ts
       IN  /\ run.last_stats # << >>
           /\ \E k \in DOMAIN run.history :
                  run.history[k].reading # None /\ run.history[k].date <= end
           /\ \E k \in DOMAIN run.history :
                  run.history[k].reading = None /\ run.history[k].date > end
           /\ Candidates(run) = << >>
    /\ imported[TheId] = << >>
    /\ stats[TheId] = recorded

\* C31: every sum handed to the recorder is at least zero, whatever the
\* values of the readings and whatever the last row.
C31_SumsNonNegative ==
    \A k \in DOMAIN imported[TheId] :
        \A i \in DOMAIN imported[TheId][k] : imported[TheId][k][i].sum >= 0

\* The statistic id of a sensor, spelled out.
OwnId(e) == <<DOMAIN_NAME, ":">> \o Replace(e.serial, "-", "_") \o <<"_", e.key>>

\* A waiting import of sensor e reads the last row in this step.
ImportReads(e, i) ==
    /\ i \in DOMAIN tasks[e]
    /\ Len(tasks'[e]) = Len(tasks[e])
    /\ tasks[e][i].pc = "wait"
    /\ tasks'[e][i].pc = "run"

\* The oldest import of sensor e ends in this step.
ImportEnds(e) ==
    /\ tasks[e] # << >>
    /\ tasks[e][1].pc = "run"
    /\ tasks'[e] = Tail(tasks[e])

\* C32: an import reads the last row of the series of its own statistic id
\* and changes nothing else; when it ends, its own series takes the points
\* computed from what it read and from its own history, and the series,
\* the batches and the imports of every other sensor stay as they are.  So
\* the points of a sensor are the same in whatever order the imports of the
\* other sensors run.
C32_ImportsIndependent ==
    [][\A e \in LtsSensors :
           /\ \A i \in DOMAIN tasks[e] :
                  ImportReads(e, i) =>
                      /\ tasks'[e][i].last_stats = GetLastStatistics(stats[OwnId(e)])
                      /\ stats' = stats
                      /\ \A f \in LtsSensors \ {e} : tasks'[f] = tasks[f]
           /\ ImportEnds(e) =>
                  LET pts == StatisticsToImport(tasks[e][1].history, tasks[e][1].last_stats)
                  IN  /\ stats'[OwnId(e)] =
                             IF pts = << >> THEN stats[OwnId(e)]
                             ELSE AddExternalStatistics(stats[OwnId(e)], pts)
                      /\ \A id \in StatisticIds \ {OwnId(e)} :
                             stats'[id] = stats[id] /\ imported'[id] = imported[id]
                      /\ \A f \in LtsSensors \ {e} : tasks'[f] = tasks[f]]_vars

\* C32 witness: in one cycle the import of one sensor has handed its points
\* to the recorder while the import of another sensor, which read its last
\* row before, has not ended.
C32_Witness ==
    \E e, f \in entities \cap LtsSensors :
        /\ e # f
        /\ tasks[e] = << >>
        /\ imported[OwnId(e)] # << >>
        /\ stats[OwnId(e)] # {}
        /\ tasks[f] # << >>
        /\ tasks[f][1].pc = "run"
        /\ stats[OwnId(f)] = {}
        /\ tasks[f][1].history # << >>
        /\ cycle.run = 1

\* C33: an import whose read of the last row raises ends with the
\* exception: it hands nothing to the recorder, it leaves the lock to the
\* import queued behind it, and it never goes on to compute points; every
\* import that does hand points over computed them from the last row of
\* the series as it is at that moment.
C33_FailedReadAborts ==
    [][/\ failures' = failures + 1 =>
              /\ tasks[TheSensor] # << >>
              /\ tasks[TheSensor][1].pc = "wait"
              /\ tasks'[TheSensor] = Tail(tasks[TheSensor])
              /\ stats' = stats
              /\ imported' = imported
       /\ (RunFinishes /\ imported' # imported) =>
              tasks[TheSensor][1].last_stats = GetLastStatistics(stats[TheId])]_vars

\* C33 witness: the recorder holds a row and the history a valued reading
\* after it; of the two imports started one has ended with the exception
\* and the other has handed over the reading, computed from the row.
C33_Witness ==
    /\ failures = 1
    /\ nruns = 2
    /\ tasks[TheSensor] = << >>
    /\ recorded # {}
    /\ Len(imported[TheId]) = 1
    /\ last_run # << >>
    /\ last_run[1].last_stats = GetLastStatistics(recorded)
    /\ last_run[1].points # << >>
    /\ last_run[1].points[1].sum > 0

\* A cycle ends in this step with new data.
UpdateStep ==
    /\ cycle.pc = "fetching"
    /\ cycle'.pc = "idle"
    /\ last_exception' = "none"

\* The device of sensor e is in the devices d and is of the class the
\* sensor is for; the sensor of the last reading date is for a device of
\* any class that has a reading.
DeviceCalls(d, e) ==
    /\ e.serial \in DOMAIN d
    /\ IF e.key = "last_reading_date" THEN d[e.serial].history # << >>
       ELSE \E x \in SENSOR_DESCRIPTIONS :
                x.key = e.key /\ x.exists_kind = d[e.serial].kind

\* C34: within one load of the entry no sensor has more than one IstaSensor
\* object, the sensors noted as created are those that have one, and an
\* update leaves a sensor created exactly when it was created before or its
\* device is in the new data and satisfies the description; an update whose
\* data has no device creates none.
C34_OneEntityPerPair ==
    [][/\ \A e \in AllSensors :
              /\ created'[e] <= 1
              /\ created'[e] = 1 <=> e \in entities'
       /\ UpdateStep =>
              /\ \A e \in AllSensors :
                     e \in entities' <=> (e \in entities \/ DeviceCalls(data', e))
              /\ DOMAIN data' = {} => created' = created]_vars

\* C34 witness: after the second update of a load, a device that was in
\* the first update and one discovered in the second have one sensor each.
C34_Witness ==
    /\ cycle.pc = "idle"
    /\ cycle.run = 2
    /\ last_exception = "none"
    /\ \E e, f \in AllSensors :
           /\ e.serial \in DOMAIN data \ DOMAIN previous
           /\ f.serial \in DOMAIN data \cap DOMAIN previous
           /\ created[e] = 1
           /\ created[f] = 1
           /\ DeviceCalls(previous, f)

\* Both metering points have computed their statistic ids.
BothImported == point[1].statistic_id # << >> /\ point[2].statistic_id # << >>

\* C35 as stated: two distinct metering points have different statistic ids.
C35_AsClaimed ==
    BothImported => point[1].statistic_id # point[2].statistic_id

\* The hot water point p and the water point q meet in one id: the serial
\* of q is the serial of p followed by _hot, hyphens taken as underscores.
HotWaterMeetsWater(p, q) ==
    /\ p.key = "hot_water"
    /\ q.key = "water"
    /\ Replace(q.serial, "-", "_") = Replace(p.serial, "-", "_") \o <<"_", "hot">>

\* C35: two distinct metering points have the same statistic id exactly
\* when they have the same key and serials that differ only by hyphens
\* against underscores, or when one is the hot water point of a serial and
\* the other the water point of that serial followed by _hot; in every
\* other case their ids differ.
C35_IdsDifferUnlessSerialsMeet ==
    BothImported =>
        (point[1].statistic_id = point[2].statistic_id
            <=> \/ /\ point[1].key = point[2].key
                   /\ Replace(point[1].serial, "-", "_") = Replace(point[2].serial, "-", "_")
                \/ HotWaterMeetsWater(point[1], point[2])
                \/ HotWaterMeetsWater(point[2], point[1]))

\* C35 witness: two points of the same key whose serials hold a hyphen and
\* an underscore at different places, and two different ids.
C35_Witness ==
    /\ BothImported
    /\ point[1].key = point[2].key
    /\ point[1].serial = <<"d", "-", "d">>
    /\ point[2].serial = <<"d", "d", "_">>
    /\ point[1].statistic_id # point[2].statistic_id

\* C36: with the entries of two accounts, no callback of a loaded entry
\* raises and no loaded entry has two IstaSensor objects for one unique id,
\* whatever entry was unloaded before.
C36_UnloadLeavesOtherEntries ==
    \A x \in Entries :
        entries.state[x] = "loaded" =>
            /\ entries.raised[x] = "none"
            /\ \A e \in AllSensors : entries.objects[x][e] <= 1

\* C37: every point an import hands to the recorder starts after every row
\* the series of its statistic id holds, and after the end of the last row
\* the import read; the rows the series holds stay as they are.  So a
\* reading that enters the history at or before the last row is never
\* handed over, and the starts of a statistic id grow from import to import.
C37_LateReadingsNotEmitted ==
    [][\A e \in LtsSensors :
           ImportEnds(e) =>
               LET pts == StatisticsToImport(tasks[e][1].history, tasks[e][1].last_stats)
                   old == stats[OwnId(e)]
               IN  /\ \A i \in DOMAIN pts :
                          /\ \A r \in old : pts[i].start > r.start
                          /\ pts[i].start > Checkpoint(tasks[e][1].last_stats).last_stat_end_ts
                   /\ \A i \in 1..(Len(pts) - 1) : pts[i].start < pts[i + 1].start
                   /\ old \subseteq stats'[OwnId(e)]]_vars

\* C37 witness: the second cycle has merged into the history of a device a
\* valued reading dated before the last row of its sensor; the imports have
\* ended and the series has no row for it.
C37_Witness ==
    /\ Merged
    /\ cycle.run = 2
    /\ \E e \in entities \cap LtsSensors :
           /\ e.serial \in DOMAIN data \cap DOMAIN previous
           /\ tasks[e] = << >>
           /\ imported[OwnId(e)] # << >>
           /\ \E k \in DOMAIN data[e.serial].history :
                  LET r == data[e.serial].history[k]
                  IN  /\ r.reading # None
                      /\ \E x \in stats[OwnId(e)] : r.date < x.start
                      /\ \A x \in stats[OwnId(e)] : r.date # x.start
                      /\ \A j \in DOMAIN previous[e.serial].history :
                             previous[e.serial].history[j].date # r.date


\* C38 as claimed: with a recorder that writes the batches after the import
\* has left the lock, every point an import hands over for a start that a
\* batch handed over earlier already holds has the state and the sum of
\* that earlier point.
C38_AsClaimed ==
    [][\A e \in LtsSensors :
           ImportEnds(e) =>
               LET pts == StatisticsToImport(tasks[e][1].history, tasks[e][1].last_stats)
                   earlier == imported[OwnId(e)]
               IN  \A i \in DOMAIN pts : \A k \in DOMAIN earlier : \A j \in DOMAIN earlier[k] :
                       earlier[k][j].start = pts[i].start =>
                           /\ earlier[k][j].state = pts[i].state
                           /\ earlier[k][j].sum = pts[i].sum]_vars


\* The readings of a history dated at or before t.
ReadingsUpTo(history, t) ==
    LET upto(r) == r.date <= t
    IN  SelectSeq(history, upto)

\* C38: with a recorder that writes the batches after the import has left
\* the lock, a point an import hands over for a start that an earlier
\* import of the sensor has handed over is the same point (state, sum and
\* last_reset) when both imports read the same last row and their
\* histories hold the same readings up to that start.
C38_SameWhenHistoryAgrees ==
    [][\A e \in LtsSensors :
           ImportEnds(e) =>
               LET pts == StatisticsToImport(tasks[e][1].history, tasks[e][1].last_stats)
               IN  \A n \in DOMAIN last_run : \A i \in DOMAIN pts :
                       \A j \in DOMAIN last_run[n].points :
                           (/\ last_run[n].sensor = e
                            /\ last_run[n].points[j].start = pts[i].start
                            /\ last_run[n].last_stats = tasks[e][1].last_stats
                            /\ ReadingsUpTo(last_run[n].history, pts[i].start)
                                   = ReadingsUpTo(tasks[e][1].history, pts[i].start))
                           => last_run[n].points[j] = pts[i]]_vars

\* C38 witness: two imports of a sensor have ended, the later one having
\* read the same last row as the earlier one although the earlier one had
\* handed over a batch; its history holds a reading more, and it has handed
\* over again a start of the earlier batch.
C38_Witness ==
    \E n \in DOMAIN last_run : \E m \in DOMAIN last_run :
        /\ n < m
        /\ last_run[n].sensor = last_run[m].sensor
        /\ last_run[n].last_stats = last_run[m].last_stats
        /\ Len(last_run[m].history) > Len(last_run[n].history)
        /\ committed[OwnId(last_run[n].sensor)] = 0
        /\ \E j \in DOMAIN last_run[n].points : \E i \in DOMAIN last_run[m].points :
               /\ last_run[n].points[j].start = last_run[m].points[i].start
               /\ ReadingsUpTo(last_run[n].history, last_run[n].points[j].start)
                      = ReadingsUpTo(last_run[m].history, last_run[n].points[j].start)
               /\ last_run[n].points[j] = last_run[m].points[i]


\* The imports of the sensor that have ended, and whether one is inside
\* the section.
Ended == nruns - Len(tasks[TheSensor])
LockHeld == tasks[TheSensor] # << >> /\ tasks[TheSensor][1].pc # "wait"

\* C39: every import started ends (the k-th import started leads to k
\* imports ended), an import that ends leaves the lock free, whether it
\* returned without points, handed its points over or raised, and the
\* oldest import waiting then takes the lock.
C39_ImportsEnd ==
    /\ \A k \in 1..MaxRuns : (nruns >= k) ~> (Ended >= k)
    /\ \A k \in 1..MaxRuns :
           (nruns >= k /\ Ended = k - 1 /\ ~LockHeld)
               ~> (Ended = k - 1 /\ LockHeld)
    /\ [][Len(tasks'[TheSensor]) < Len(tasks[TheSensor]) => ~LockHeld']_vars

\* C39 witness: the first import has failed, and the import that was
\* started behind it is inside the section, the history it holds showing
\* that it was started before a later reading came.
C39_Witness ==
    /\ nruns = 2
    /\ failures = 1
    /\ Len(tasks[TheSensor]) = 1
    /\ tasks[TheSensor][1].pc = "run"
    /\ Len(tasks[TheSensor][1].history) < Len(data[TheSerial].history)

====
